---------------------------- MODULE Spec2Model ----------------------------
(***************************************************************************)
(* Sentiment360: the REST API (registerRoutes), the storage layer          *)
(* (DatabaseStorage) and the insert schemas, as a state machine.           *)
(*                                                                         *)
(* Text whose characters matter (messageCount, the strings a number is     *)
(* formatted to, a decimal column as the driver returns it) is a sequence  *)
(* of one-character strings; text that is only compared (sentiment,        *)
(* priority, status, route names) is a TLA+ string.                        *)
(*                                                                         *)
(* A request handler is an async function: it runs to its first await,     *)
(* the database executes the statement, and the continuation answers.      *)
(* Each of these is one step, so handlers of concurrent requests           *)
(* interleave exactly at their awaits.                                     *)
(***************************************************************************)
EXTENDS Integers, Sequences, FiniteSets, TLC

VARIABLES
    db,        \* the eight tables: table name -> sequence of rows, in heap order
    clock,     \* the database's now()
    nextId,    \* the next value gen_random_uuid() yields (always fresh)
    inflight,  \* request id -> the handler suspended at an await
    nreq,      \* requests received so far
    last,      \* the response sent last
    acked      \* <<table, id>> of every row whose create was answered 201

vars == <<db, clock, nextId, inflight, nreq, last, acked>>

(***************************************************************************)
(* Bounds of the model.                                                    *)
(***************************************************************************)
MaxRequests == 2    \* requests received in one behaviour of the write path
MaxListRequests == 3 \* requests received in one behaviour of creates and lists
MaxInFlight == 2    \* handlers suspended at an await at the same time
MaxReadRequests == 1 \* requests received in one behaviour of the read path
MaxRegions == 2     \* regional rows of a drawn store

(***************************************************************************)
(* JSON values of a request body, with the JavaScript type zod looks at.   *)
(***************************************************************************)
S(s) == [t |-> "string", v |-> s]
Undefined == [t |-> "undefined", v |-> ""]
UndefinedText == [t |-> "undefined", v |-> <<>>]
N(n) == [t |-> "number", v |-> n]
\* parseInt("") is NaN, which JSON.stringify sends as null
Null == [t |-> "null", v |-> 0]

Tables == {"regionalSentiment", "feedback", "sentimentTrends", "priorityItems",
           "aiInsights", "impactMetrics", "usageMetrics", "channels"}

Sentiments == {"positive", "negative", "neutral"}
Priorities == {"high", "medium", "low"}
Statuses == {"active", "inactive"}

(***************************************************************************)
(* Characters.                                                             *)
(***************************************************************************)
Digits == <<"0", "1", "2", "3", "4", "5", "6", "7", "8", "9">>

IsDigit(c) == \E d \in 1..10 : Digits[d] = c

DigitVal(c) == (CHOOSE d \in 1..10 : Digits[d] = c) - 1

\* Number.prototype.toString of a non-negative integer
RECURSIVE IntToStr(_)
IntToStr(n) == IF n < 10 THEN <<Digits[n + 1]>>
               ELSE IntToStr(n \div 10) \o <<Digits[(n % 10) + 1]>>

RECURSIVE ParseDigits(_)
ParseDigits(s) == IF s = <<>> THEN 0
                  ELSE 10 * ParseDigits(SubSeq(s, 1, Len(s) - 1)) + DigitVal(s[Len(s)])


Min(a, b) == IF a < b THEN a ELSE b

Ids(rows) == {rows[i].id : i \in DOMAIN rows}

(***************************************************************************)
(* shared/schema.ts: the insert schemas drizzle-zod derives from the       *)
(* tables.  A text column gives z.string(), an integer column a number;    *)
(* id and the defaulted timestamps are omitted, and z.object strips them   *)
(* from a body that carries them.                                          *)
(***************************************************************************)
ZString(x) == x.t = "string"

ZInteger(x) == x.t = "number"

insertFeedbackSchema(body) ==
    IF ZString(body.text) /\ ZString(body.sentiment)
       /\ ZString(body.source) /\ ZString(body.region)
    THEN [success |-> TRUE,
          data |-> [text |-> body.text.v, sentiment |-> body.sentiment.v,
                    source |-> body.source.v, region |-> body.region.v]]
    ELSE [success |-> FALSE]

insertPriorityItemSchema(body) ==
    IF ZString(body.title) /\ ZString(body.description) /\ ZInteger(body.impact)
       /\ ZInteger(body.effort) /\ ZString(body.category) /\ ZInteger(body.rank)
    THEN [success |-> TRUE,
          data |-> [title |-> body.title.v, description |-> body.description.v,
                    impact |-> body.impact.v, effort |-> body.effort.v,
                    category |-> body.category.v, rank |-> body.rank.v]]
    ELSE [success |-> FALSE]

insertAIInsightSchema(body) ==
    IF ZString(body.title) /\ ZString(body.description)
       /\ ZString(body.priority) /\ ZString(body.impact)
    THEN [success |-> TRUE,
          data |-> [title |-> body.title.v, description |-> body.description.v,
                    priority |-> body.priority.v, impact |-> body.impact.v]]
    ELSE [success |-> FALSE]

insertChannelSchema(body) ==
    IF ZString(body.name) /\ ZString(body.status) /\ ZString(body.messageCount)
    THEN [success |-> TRUE,
          data |-> [name |-> body.name.v, status |-> body.status.v,
                    messageCount |-> body.messageCount.v]]
    ELSE [success |-> FALSE]

(***************************************************************************)
(* Manage.tsx: the message count pattern /^[0-9]+(\.[0-9]+)?[KMB]?$/i.     *)
(* i is the last digit of the integer part, j the last character of the    *)
(* optional fraction; what follows j is nothing or one suffix letter.      *)
(***************************************************************************)
SuffixLetters == {"K", "k", "M", "m", "B", "b"}

validPattern(s) ==
    \E i \in 1..Len(s) : \E j \in i..Len(s) :
        /\ \A k \in 1..i : IsDigit(s[k])
        /\ \/ j = i
           \/ /\ j >= i + 2
              /\ s[i + 1] = "."
              /\ \A k \in (i + 2)..j : IsDigit(s[k])
        /\ \/ j = Len(s)
           \/ j + 1 = Len(s) /\ s[Len(s)] \in SuffixLetters

(***************************************************************************)
(* The rows an insert stores: the validated values, the generated id and   *)
(* the column defaults (now()).                                            *)
(***************************************************************************)
FeedbackRow(data) ==
    [id |-> nextId, text |-> data.text, sentiment |-> data.sentiment,
     source |-> data.source, region |-> data.region, timestamp |-> clock]

PriorityItemRow(data) ==
    [id |-> nextId, title |-> data.title, description |-> data.description,
     impact |-> data.impact, effort |-> data.effort,
     category |-> data.category, rank |-> data.rank]

AIInsightRow(data) ==
    [id |-> nextId, title |-> data.title, description |-> data.description,
     priority |-> data.priority, impact |-> data.impact, createdAt |-> clock]

ChannelRow(data) ==
    [id |-> nextId, name |-> data.name, status |-> data.status,
     messageCount |-> data.messageCount]

(***************************************************************************)
(* drizzle: insert(table).values(row), select().from(table),               *)
(* orderBy(desc(column)), limit(n).                                        *)
(***************************************************************************)
InsertValuesOverwriting(rows, row) == <<row>>

InsertValues(rows, row) == Append(rows, row)

\* stable merge of two index sequences, greater key first
RECURSIVE MergeDesc(_, _, _)
MergeDesc(a, b, keys) ==
    IF a = <<>> THEN b
    ELSE IF b = <<>> THEN a
    ELSE IF keys[Head(b)] > keys[Head(a)]
         THEN <<Head(b)>> \o MergeDesc(a, Tail(b), keys)
         ELSE <<Head(a)>> \o MergeDesc(Tail(a), b, keys)

RECURSIVE SortDesc(_, _)
SortDesc(idx, keys) ==
    IF Len(idx) <= 1 THEN idx
    ELSE LET h == Len(idx) \div 2
         IN MergeDesc(SortDesc(SubSeq(idx, 1, h), keys),
                      SortDesc(SubSeq(idx, h + 1, Len(idx)), keys), keys)

\* ties: SQL leaves the order of rows with equal keys open; the two orders
\* modelled are heap order and reverse heap order.
TieOrders == {"heap", "reverse"}

OrderByAsc(rows, keys, tie) ==
    LET n == Len(rows)
        idx == SortDesc([i \in 1..n |-> i], [i \in 1..n |-> 0 - keys[i]])
    IN [k \in 1..n |-> rows[idx[k]]]

OrderByDesc(rows, keys, tie) ==
    LET n == Len(rows)
        start == IF tie = "heap" THEN [i \in 1..n |-> i] ELSE [i \in 1..n |-> n + 1 - i]
        idx == SortDesc(start, keys)
    IN [k \in 1..n |-> rows[idx[k]]]

Limit(rows, n) == SubSeq(rows, 1, Min(n, Len(rows)))


(***************************************************************************)
(* parseInt of a query parameter: an optional sign, then the leading       *)
(* digits; NaN when there is none.  (The inputs drawn hold no white        *)
(* space, which parseInt would skip.)                                      *)
(***************************************************************************)
NaN == [nan |-> TRUE, v |-> 0]

Num(n) == [nan |-> FALSE, v |-> n]

LeadingDigits(s) ==
    CHOOSE k \in 0..Len(s) :
        /\ \A i \in 1..k : IsDigit(s[i])
        /\ k = Len(s) \/ ~IsDigit(s[k + 1])

parseInt(s) ==
    LET signed == s # <<>> /\ s[1] \in {"-", "+"}
        rest == IF signed THEN Tail(s) ELSE s
        k == LeadingDigits(rest)
        n == ParseDigits(SubSeq(rest, 1, k))
    IN IF k = 0 THEN NaN
       ELSE IF signed /\ s[1] = "-" THEN Num(0 - n) ELSE Num(n)

\* a query parameter is truthy when present and not the empty string
Truthy(x) == x.t = "string" /\ x.v # <<>>

(***************************************************************************)
(* Requests and responses.                                                 *)
(***************************************************************************)
NewRequest(route, body, arg) ==
    [route |-> route, pc |-> "storage", body |-> body, arg |-> arg, failed |-> FALSE,
     rows |-> <<>>, added |-> 0, mustSee |-> {}, snapshot |-> <<>>,
     regionalData |-> <<>>, feedbackData |-> <<>>]

NoResponse ==
    [route |-> "none", status |-> 0, error |-> "", json |-> <<>>, body |-> <<>>,
     added |-> 0, cause |-> "none", mustSee |-> {}, snapshot |-> <<>>,
     regionalData |-> <<>>]

CanReceive == Cardinality(DOMAIN inflight) < MaxInFlight

\* the handler reached an await: it is suspended until the statement is done
Suspend(req) ==
    /\ inflight' = (nreq + 1 :> req) @@ inflight
    /\ nreq' = nreq + 1

Resume(rid) == inflight' = [r \in DOMAIN inflight \ {rid} |-> inflight[r]]

AckedIn(table) == {p[2] : p \in {q \in acked : q[1] = table}}

IsCreate(route) == route \in {"POST /api/feedback", "POST /api/priority-items",
                              "POST /api/ai-insights", "POST /api/channels"}

Send(resp) == last' = resp

(***************************************************************************)
(* A statement the database could not execute (connectivity, a constraint) *)
(* rejects the promise the handler awaits; the tables stay as they were.   *)
(***************************************************************************)
StorageThrows(rid) ==
    /\ inflight' = [inflight EXCEPT ![rid].failed = TRUE, ![rid].pc = "respond"]
    /\ UNCHANGED <<db, clock, nextId, nreq, last, acked>>

\* what a statement did to the tables: -1 when a row that was there is gone
\* or changed, else the number of rows that are new
RECURSIVE CountRows(_, _)
CountRows(d, ts) ==
    IF ts = {} THEN 0
    ELSE LET tb == CHOOSE x \in ts : TRUE
         IN Len(d[tb]) + CountRows(d, ts \ {tb})

RowsAdded(before, after) ==
    IF \A tb \in Tables :
          /\ Len(after[tb]) >= Len(before[tb])
          /\ SubSeq(after[tb], 1, Len(before[tb])) = before[tb]
    THEN CountRows(after, Tables) - CountRows(before, Tables)
    ELSE 0 - 1

InsertReturningTwice(rid, table, row) ==
    LET after == [db EXCEPT ![table] = InsertValues(InsertValues(@, row), row)]
    IN /\ db' = after
       /\ nextId' = nextId + 1
       /\ inflight' = [inflight EXCEPT ![rid].rows = <<row>>,
                                       ![rid].added = 1,
                                       ![rid].pc = "respond"]
       /\ UNCHANGED <<clock, nreq, last, acked>>

\* db.insert(table).values(data).returning()
InsertReturning(rid, table, row) ==
    LET after == [db EXCEPT ![table] = InsertValues(@, row)]
    IN /\ db' = after
       /\ nextId' = nextId + 1
       /\ inflight' = [inflight EXCEPT ![rid].rows = <<row>>,
                                       ![rid].added = RowsAdded(db, after),
                                       ![rid].pc = "respond"]
       /\ UNCHANGED <<clock, nreq, last, acked>>

\* a select: the rows read, and the table as it was when they were read
Selected(rid, table, rows) ==
    /\ inflight' = [inflight EXCEPT ![rid].rows = rows,
                                    ![rid].snapshot = db[table],
                                    ![rid].pc = "respond"]
    /\ UNCHANGED <<db, clock, nextId, nreq, last, acked>>

At(rid, route, pc) ==
    /\ rid \in DOMAIN inflight
    /\ inflight[rid].route = route
    /\ inflight[rid].pc = pc

(***************************************************************************)
(* routes.ts: the POST handlers.  One try block holds the parse and the    *)
(* storage call, and one catch answers for both.                           *)
(***************************************************************************)
PostStatusAlwaysCreated(failed) == 201

PostStatus(failed) == IF failed THEN 400 ELSE 201

\* up to the await: schema.parse(req.body), then the storage call is issued
PostReceive(route, body, parsed, message) ==
    /\ CanReceive
    /\ IF parsed.success
       THEN /\ Suspend(NewRequest(route, body, parsed.data))
            /\ UNCHANGED <<db, clock, nextId, last, acked>>
       ELSE /\ Send([NoResponse EXCEPT !.route = route, !.status = PostStatus(TRUE),
                                       !.error = message, !.body = body,
                                       !.cause = "validation"])
            /\ nreq' = nreq + 1
            /\ UNCHANGED <<db, clock, nextId, inflight, acked>>

\* after the await: res.status(201).json(row), or the catch block
PostRespond(rid, table, message) ==
    LET r == inflight[rid]
    IN /\ IF r.failed
          THEN /\ Send([NoResponse EXCEPT !.route = r.route, !.status = PostStatus(TRUE),
                                          !.error = message, !.body = r.body,
                                          !.added = r.added, !.cause = "storage"])
               /\ UNCHANGED acked
          ELSE /\ Send([NoResponse EXCEPT !.route = r.route, !.status = PostStatus(FALSE),
                                          !.json = r.rows, !.body = r.body,
                                          !.added = r.added])
               /\ acked' = acked \cup {<<table, r.rows[1].id>>}
       /\ Resume(rid)
       /\ UNCHANGED <<db, clock, nextId, nreq>>

PostFeedback(body) ==
    PostReceive("POST /api/feedback", body, insertFeedbackSchema(body),
                "Invalid feedback data")

createFeedback(rid) ==
    /\ At(rid, "POST /api/feedback", "storage")
    /\ \/ InsertReturning(rid, "feedback", FeedbackRow(inflight[rid].arg))
       \/ StorageThrows(rid)

PostFeedbackRespond(rid) ==
    /\ At(rid, "POST /api/feedback", "respond")
    /\ PostRespond(rid, "feedback", "Invalid feedback data")

PostPriorityItem(body) ==
    PostReceive("POST /api/priority-items", body, insertPriorityItemSchema(body),
                "Invalid priority item data")

createPriorityItem(rid) ==
    /\ At(rid, "POST /api/priority-items", "storage")
    /\ \/ InsertReturning(rid, "priorityItems", PriorityItemRow(inflight[rid].arg))
       \/ StorageThrows(rid)

PostPriorityItemRespond(rid) ==
    /\ At(rid, "POST /api/priority-items", "respond")
    /\ PostRespond(rid, "priorityItems", "Invalid priority item data")

PostAIInsight(body) ==
    PostReceive("POST /api/ai-insights", body, insertAIInsightSchema(body),
                "Invalid AI insight data")

createAIInsight(rid) ==
    /\ At(rid, "POST /api/ai-insights", "storage")
    /\ \/ InsertReturning(rid, "aiInsights", AIInsightRow(inflight[rid].arg))
       \/ StorageThrows(rid)

PostAIInsightRespond(rid) ==
    /\ At(rid, "POST /api/ai-insights", "respond")
    /\ PostRespond(rid, "aiInsights", "Invalid AI insight data")

PostChannel(body) ==
    PostReceive("POST /api/channels", body, insertChannelSchema(body),
                "Invalid channel data")

createChannel(rid) ==
    /\ At(rid, "POST /api/channels", "storage")
    /\ \/ InsertReturning(rid, "channels", ChannelRow(inflight[rid].arg))
       \/ StorageThrows(rid)

PostChannelRespond(rid) ==
    /\ At(rid, "POST /api/channels", "respond")
    /\ PostRespond(rid, "channels", "Invalid channel data")


(***************************************************************************)
(* storage.ts: the reads.                                                  *)
(***************************************************************************)
Column(rows, name) == [i \in 1..Len(rows) |-> rows[i][name]]

getRecentFeedbackOldestFirst(rows, limit, tie) ==
    Limit(OrderByAsc(rows, Column(rows, "timestamp"), tie), limit)

\* select().from(feedback).orderBy(desc(feedback.timestamp)).limit(limit)
getRecentFeedback(rows, limit, tie) ==
    Limit(OrderByDesc(rows, Column(rows, "timestamp"), tie), limit)

\* select().from(aiInsights).orderBy(desc(aiInsights.createdAt))
getAIInsights(rows, tie) == OrderByDesc(rows, Column(rows, "createdAt"), tie)

\* PostgreSQL refuses a LIMIT that is negative or not a number
LimitAccepted(limit) == ~limit.nan /\ limit.v >= 0

(***************************************************************************)
(* routes.ts: the GET handlers.                                            *)
(***************************************************************************)
GetReceive(route, table, query, arg) ==
    /\ CanReceive
    /\ Suspend([NewRequest(route, query, arg) EXCEPT !.mustSee = AckedIn(table)])
    /\ UNCHANGED <<db, clock, nextId, last, acked>>

GetRespond(rid, message) ==
    LET r == inflight[rid]
    IN /\ IF r.failed
          THEN Send([NoResponse EXCEPT !.route = r.route, !.status = 500,
                                       !.error = message, !.body = r.body,
                                       !.cause = "storage"])
          ELSE Send([NoResponse EXCEPT !.route = r.route, !.status = 200,
                                       !.json = r.rows, !.body = r.body,
                                       !.mustSee = r.mustSee,
                                       !.snapshot = r.snapshot])
       /\ Resume(rid)
       /\ UNCHANGED <<db, clock, nextId, nreq, acked>>

\* const limit = req.query.limit ? parseInt(req.query.limit) : 10
GetFeedback(query) ==
    GetReceive("GET /api/feedback", "feedback", query,
               IF Truthy(query.limit) THEN parseInt(query.limit.v) ELSE Num(10))

GetFeedbackStorage(rid) ==
    /\ At(rid, "GET /api/feedback", "storage")
    /\ \/ /\ LimitAccepted(inflight[rid].arg)
          /\ \E tie \in TieOrders :
                Selected(rid, "feedback",
                         getRecentFeedback(db.feedback, inflight[rid].arg.v, tie))
       \/ StorageThrows(rid)

GetFeedbackRespond(rid) ==
    /\ At(rid, "GET /api/feedback", "respond")
    /\ GetRespond(rid, "Failed to fetch feedback")

GetPriorityItems == GetReceive("GET /api/priority-items", "priorityItems", <<>>, <<>>)

getPriorityItems(rid) ==
    /\ At(rid, "GET /api/priority-items", "storage")
    /\ \/ Selected(rid, "priorityItems", db.priorityItems)
       \/ StorageThrows(rid)

GetPriorityItemsRespond(rid) ==
    /\ At(rid, "GET /api/priority-items", "respond")
    /\ GetRespond(rid, "Failed to fetch priority items")

GetAIInsights == GetReceive("GET /api/ai-insights", "aiInsights", <<>>, <<>>)

GetAIInsightsStorage(rid) ==
    /\ At(rid, "GET /api/ai-insights", "storage")
    /\ \/ \E tie \in TieOrders :
             Selected(rid, "aiInsights", getAIInsights(db.aiInsights, tie))
       \/ StorageThrows(rid)

GetAIInsightsRespond(rid) ==
    /\ At(rid, "GET /api/ai-insights", "respond")
    /\ GetRespond(rid, "Failed to fetch AI insights")

GetChannels == GetReceive("GET /api/channels", "channels", <<>>, <<>>)

getChannels(rid) ==
    /\ At(rid, "GET /api/channels", "storage")
    /\ \/ Selected(rid, "channels", db.channels)
       \/ StorageThrows(rid)

GetChannelsRespond(rid) ==
    /\ At(rid, "GET /api/channels", "respond")
    /\ GetRespond(rid, "Failed to fetch channels")

(***************************************************************************)
(* routes.ts: GET /api/dashboard-stats.  A JavaScript number is modelled   *)
(* as the exact fraction num/den it approximates.  toFixed(1) rounds to    *)
(* the nearest tenth; when the exact value lies half way between two       *)
(* tenths the double nearest to it may lie on either side (0.25 gives      *)
(* "0.3", 0.35 gives "0.3"), so both tenths are possible outcomes.         *)
(***************************************************************************)
\* parseFloat of a decimal(3,1) column as the driver returns it ("8.2"),
\* in tenths
parseFloat(s) ==
    LET dot == CHOOSE i \in 1..Len(s) : s[i] = "."
    IN 10 * ParseDigits(SubSeq(s, 1, dot - 1)) + DigitVal(s[dot + 1])

\* regionalData.reduce((sum, r) => sum + parseFloat(r.sentimentScore), 0), in tenths
RECURSIVE SumScores(_)
SumScores(rows) ==
    IF rows = <<>> THEN 0
    ELSE SumScores(SubSeq(rows, 1, Len(rows) - 1))
         + parseFloat(rows[Len(rows)].sentimentScore)

avgSentimentNotDivided(regionalData) == [num |-> SumScores(regionalData), den |-> 10]

avgSentiment(regionalData) ==
    IF Len(regionalData) > 0
    THEN [num |-> SumScores(regionalData), den |-> 10 * Len(regionalData)]
    ELSE [num |-> 0, den |-> 1]

Tenths(n) == IntToStr(n \div 10) \o <<".">> \o IntToStr(n % 10)

\* the strings x.toFixed(1) can be for a number x >= 0
toFixed1(x) ==
    LET q == (10 * x.num) \div x.den
        r == (10 * x.num) % x.den
    IN IF 2 * r < x.den THEN {Tenths(q)}
       ELSE IF 2 * r > x.den THEN {Tenths(q + 1)}
       ELSE {Tenths(q), Tenths(q + 1)}

formatCountInclusive(n) ==
    IF n >= 1000 THEN {s \o <<"K">> : s \in toFixed1([num |-> n, den |-> 1000])}
    ELSE {IntToStr(n)}

\* n > 1000 ? `${(n / 1000).toFixed(1)}K` : n.toString()
formatCount(n) ==
    IF n > 1000 THEN {s \o <<"K">> : s \in toFixed1([num |-> n, den |-> 1000])}
    ELSE {IntToStr(n)}

responseRate == 94

activeUsersPerFeedback == 2820 + 100 * Len(db.feedback)

activeUsers == 2820

GetDashboardStats ==
    /\ CanReceive
    /\ Suspend([NewRequest("GET /api/dashboard-stats", <<>>, <<>>)
                   EXCEPT !.pc = "getRegionalSentiment"])
    /\ UNCHANGED <<db, clock, nextId, last, acked>>

\* const regionalData = await storage.getRegionalSentiment()
StatsRegionalSentiment(rid) ==
    /\ At(rid, "GET /api/dashboard-stats", "getRegionalSentiment")
    /\ \/ /\ inflight' = [inflight EXCEPT ![rid].regionalData = db.regionalSentiment,
                                          ![rid].pc = "getRecentFeedback"]
          /\ UNCHANGED <<db, clock, nextId, nreq, last, acked>>
       \/ StorageThrows(rid)

\* const feedbackData = await storage.getRecentFeedback(100)
StatsRecentFeedback(rid) ==
    /\ At(rid, "GET /api/dashboard-stats", "getRecentFeedback")
    /\ \/ /\ \E tie \in TieOrders :
                inflight' = [inflight EXCEPT
                                ![rid].feedbackData = getRecentFeedback(db.feedback, 100, tie),
                                ![rid].snapshot = db.feedback,
                                ![rid].pc = "getSentimentTrends"]
          /\ UNCHANGED <<db, clock, nextId, nreq, last, acked>>
       \/ StorageThrows(rid)

\* const trendsData = await storage.getSentimentTrends(), which is not used
StatsSentimentTrends(rid) ==
    /\ At(rid, "GET /api/dashboard-stats", "getSentimentTrends")
    /\ \/ /\ inflight' = [inflight EXCEPT ![rid].pc = "respond"]
          /\ UNCHANGED <<db, clock, nextId, nreq, last, acked>>
       \/ StorageThrows(rid)

StatsRespond(rid) ==
    LET r == inflight[rid]
        totalFeedback == Len(r.feedbackData)
    IN /\ At(rid, "GET /api/dashboard-stats", "respond")
       /\ IF r.failed
          THEN Send([NoResponse EXCEPT !.route = r.route, !.status = 500,
                                       !.error = "Failed to fetch dashboard stats",
                                       !.cause = "storage"])
          ELSE \E avg \in toFixed1(avgSentiment(r.regionalData)) :
               \E total \in formatCount(totalFeedback) :
               \E active \in formatCount(activeUsers) :
                  Send([NoResponse EXCEPT
                          !.route = r.route, !.status = 200,
                          !.json = <<[avgSentiment |-> avg,
                                      totalFeedback |-> total,
                                      responseRate |-> IntToStr(responseRate) \o <<"%">>,
                                      activeUsers |-> active,
                                      sentimentChange |-> 12,
                                      feedbackChange |-> 8,
                                      responseRateChange |-> 5,
                                      activeUsersChange |-> 15]>>,
                          !.snapshot = r.snapshot,
                          !.regionalData = r.regionalData])
       /\ Resume(rid)
       /\ UNCHANGED <<db, clock, nextId, nreq, acked>>

(***************************************************************************)
(* The request bodies and queries drawn.                                   *)
(***************************************************************************)
Text(s) == [t |-> "string", v |-> s]

FeedbackBody(sentiment) ==
    [text |-> S("Great support"), sentiment |-> sentiment,
     source |-> S("Email"), region |-> S("West")]

FeedbackBodies ==
    {FeedbackBody(s) : s \in {S("positive"), S("maybe"), Undefined}}

PriorityItemBody(impact, effort, rank) ==
    [title |-> S("Onboarding"), description |-> S("Shorten it"), impact |-> impact,
     effort |-> effort, category |-> S("Product"), rank |-> rank]

PriorityItemBodies ==
    {PriorityItemBody(N(8), N(3), N(1)), PriorityItemBody(N(11), N(0), N(2)),
     PriorityItemBody(N(8), N(3), N(0)), PriorityItemBody(N(8), N(3), Null)}

AIInsightBody(priority) ==
    [title |-> S("Churn"), description |-> S("Act"), priority |-> priority,
     impact |-> S("+5%")]

AIInsightBodies == {AIInsightBody(p) : p \in {S("high"), S("urgent"), Undefined}}

ChannelBody(status, messageCount) ==
    [name |-> S("Email"), status |-> status, messageCount |-> messageCount]

ChannelBodies ==
    {ChannelBody(S("active"), Text(<<"2", ".", "5", "K">>)),
     ChannelBody(S("paused"), Text(<<"1", "0", "0">>)),
     ChannelBody(S("active"), Text(<<"1", "0", "K", "M">>)),
     ChannelBody(S("active"), UndefinedText)}

FeedbackQueries == {[limit |-> l] : l \in {UndefinedText, Text(<<"1">>)}}

ReadQueries ==
    {[limit |-> l] : l \in {UndefinedText, Text(<<>>), Text(<<"0">>), Text(<<"2">>),
                            Text(<<"1", "2">>), Text(<<"-", "1">>), Text(<<"x">>)}}

(***************************************************************************)
(* The API over a database whose tables are empty when the server starts.  *)
(***************************************************************************)
EmptyDb == [t \in Tables |-> <<>>]

Init ==
    /\ db = EmptyDb
    /\ clock = 0
    /\ nextId = 1
    /\ inflight = <<>>
    /\ nreq = 0
    /\ last = NoResponse
    /\ acked = {}

\* the inputs drawn while fewer than max requests were received
Upto(max, inputs) == IF nreq < max THEN inputs ELSE {}

Next ==
    \/ \E body \in Upto(MaxRequests, FeedbackBodies) : PostFeedback(body)
    \/ \E body \in Upto(MaxRequests, PriorityItemBodies) : PostPriorityItem(body)
    \/ \E body \in Upto(MaxRequests, AIInsightBodies) : PostAIInsight(body)
    \/ \E body \in Upto(MaxRequests, ChannelBodies) : PostChannel(body)
    \/ \E query \in Upto(MaxRequests, FeedbackQueries) : GetFeedback(query)
    \/ nreq < MaxRequests /\ GetPriorityItems
    \/ nreq < MaxRequests /\ GetAIInsights
    \/ nreq < MaxRequests /\ GetChannels
    \/ \E rid \in DOMAIN inflight : createFeedback(rid)
    \/ \E rid \in DOMAIN inflight : PostFeedbackRespond(rid)
    \/ \E rid \in DOMAIN inflight : createPriorityItem(rid)
    \/ \E rid \in DOMAIN inflight : PostPriorityItemRespond(rid)
    \/ \E rid \in DOMAIN inflight : createAIInsight(rid)
    \/ \E rid \in DOMAIN inflight : PostAIInsightRespond(rid)
    \/ \E rid \in DOMAIN inflight : createChannel(rid)
    \/ \E rid \in DOMAIN inflight : PostChannelRespond(rid)
    \/ \E rid \in DOMAIN inflight : GetFeedbackStorage(rid)
    \/ \E rid \in DOMAIN inflight : GetFeedbackRespond(rid)
    \/ \E rid \in DOMAIN inflight : getPriorityItems(rid)
    \/ \E rid \in DOMAIN inflight : GetPriorityItemsRespond(rid)
    \/ \E rid \in DOMAIN inflight : GetAIInsightsStorage(rid)
    \/ \E rid \in DOMAIN inflight : GetAIInsightsRespond(rid)
    \/ \E rid \in DOMAIN inflight : getChannels(rid)
    \/ \E rid \in DOMAIN inflight : GetChannelsRespond(rid)

Spec == Init /\ [][Next]_vars

(***************************************************************************)
(* Concurrent creates and lists of feedback (ordered, limited), priority   *)
(* items and channels (whole table): more requests, one accepted body      *)
(* each.                                                                   *)
(***************************************************************************)
NextLists ==
    \/ \E body \in Upto(MaxListRequests, {FeedbackBody(S("positive"))}) :
          PostFeedback(body)
    \/ \E body \in Upto(MaxListRequests, {PriorityItemBody(N(8), N(3), N(1))}) :
          PostPriorityItem(body)
    \/ \E body \in Upto(MaxListRequests,
                        {ChannelBody(S("active"), Text(<<"2", ".", "5", "K">>))}) :
          PostChannel(body)
    \/ \E query \in Upto(MaxListRequests, {[limit |-> Text(<<"1">>)]}) :
          GetFeedback(query)
    \/ nreq < MaxListRequests /\ GetPriorityItems
    \/ nreq < MaxListRequests /\ GetChannels
    \/ \E rid \in DOMAIN inflight : createFeedback(rid)
    \/ \E rid \in DOMAIN inflight : PostFeedbackRespond(rid)
    \/ \E rid \in DOMAIN inflight : createPriorityItem(rid)
    \/ \E rid \in DOMAIN inflight : PostPriorityItemRespond(rid)
    \/ \E rid \in DOMAIN inflight : createChannel(rid)
    \/ \E rid \in DOMAIN inflight : PostChannelRespond(rid)
    \/ \E rid \in DOMAIN inflight : GetFeedbackStorage(rid)
    \/ \E rid \in DOMAIN inflight : GetFeedbackRespond(rid)
    \/ \E rid \in DOMAIN inflight : getPriorityItems(rid)
    \/ \E rid \in DOMAIN inflight : GetPriorityItemsRespond(rid)
    \/ \E rid \in DOMAIN inflight : getChannels(rid)
    \/ \E rid \in DOMAIN inflight : GetChannelsRespond(rid)

SpecLists == Init /\ [][NextLists]_vars


(***************************************************************************)
(* Properties of the write path.                                           *)
(***************************************************************************)
Answered(route) == last.route = route /\ last.status # 0

\* C1: a create-feedback request whose sentiment is not positive, negative or
\* neutral is answered 400 and stores nothing, so no feedback row ever holds
\* another sentiment.
C1_InvalidSentimentRejected ==
    /\ (Answered("POST /api/feedback")
        /\ ~(last.body.sentiment.t = "string" /\ last.body.sentiment.v \in Sentiments))
       => (last.status = 400 /\ last.added = 0)
    /\ \A i \in DOMAIN db.feedback : db.feedback[i].sentiment \in Sentiments

\* C2: every stored channel has a messageCount of the valid format: digits,
\* optionally '.' and digits, optionally one K/M/B suffix letter.
C2_StoredMessageCountValid ==
    \A i \in DOMAIN db.channels : validPattern(db.channels[i].messageCount)

\* C3: every stored AI insight has priority high, medium or low and every
\* stored channel has status active or inactive.
C3_StoredEnumsValid ==
    /\ \A i \in DOMAIN db.aiInsights : db.aiInsights[i].priority \in Priorities
    /\ \A i \in DOMAIN db.channels : db.channels[i].status \in Statuses

\* C4: every stored priority item has impact and effort in 1..10 and a positive
\* rank, so its matrix position x = effort*10, y = 100 - impact*10 lies in the
\* square 0..100.
C4_StoredPriorityItemInRange ==
    \A i \in DOMAIN db.priorityItems :
        LET item == db.priorityItems[i]
        IN /\ item.impact \in 1..10
           /\ item.effort \in 1..10
           /\ item.rank > 0
           /\ item.effort * 10 \in 0..100
           /\ 100 - item.impact * 10 \in 0..100

\* C5: the answer to a create that failed in the repository differs from the
\* answer the same endpoint gives to an invalid payload (stated for two
\* answers sent one after the other).
C5_StorageFailureDistinguishable ==
    [][(/\ IsCreate(last.route)
        /\ last'.route = last.route
        /\ {last.cause, last'.cause} = {"validation", "storage"})
       => <<last'.status, last'.error>> # <<last.status, last.error>>]_vars

\* C6: a create request is answered 201 or 400; it is answered 201 exactly
\* when its statement added one row (the row answered, stored once in its
\* table) and changed nothing else, and a request answered 400 left every
\* table as it was.
C6_CreatedIffStored ==
    IsCreate(last.route) =>
        /\ last.status \in {201, 400}
        /\ last.status = 201 <=> last.added = 1
        /\ last.status = 400 => last.added = 0
        /\ last.status = 201 =>
              \E tb \in Tables :
                 Cardinality({i \in DOMAIN db[tb] : db[tb][i] = last.json[1]}) = 1

C6_Witness ==
    /\ IsCreate(last.route)
    /\ last.status = 400
    /\ last.cause = "storage"
    /\ acked # {}

\* the limit a list-feedback query asks for: 10 when none is given
GivenLimit(query) ==
    IF query.limit.t = "undefined" \/ query.limit.v = <<>> THEN 10
    ELSE ParseDigits(query.limit.v)

RowWithId(rows, id) == rows[CHOOSE i \in DOMAIN rows : rows[i].id = id]

FeedbackStore(n, stride) ==
    [i \in 1..n |-> [id |-> i, text |-> "Great support", sentiment |-> "positive",
                     source |-> "Email", region |-> "West",
                     timestamp |-> (i - 1) \div stride]]

\* <<rows, rows inserted per tick of now()>>
FeedbackStores == {<<0, 1>>, <<2, 1>>, <<3, 2>>, <<11, 1>>, <<12, 5>>,
                   <<100, 100>>, <<101, 101>>}

SeedScores == <<<<"8", ".", "2">>, <<"7", ".", "5">>, <<"7", ".", "9">>,
                <<"6", ".", "8">>, <<"8", ".", "5">>>>

RegionScores == {<<"6", ".", "0">>, <<"8", ".", "0">>, <<"0", ".", "3">>,
                 <<"0", ".", "4">>}

RegionalStore(scores, firstId) ==
    [i \in 1..Len(scores) |-> [id |-> firstId + i - 1, region |-> "West",
                               sentimentScore |-> scores[i], updatedAt |-> 0]]

RegionalStores ==
    UNION {[1..n -> RegionScores] : n \in 0..MaxRegions}

ReadStores ==
    {[EmptyDb EXCEPT !.feedback = FeedbackStore(s[1], s[2]),
                     !.regionalSentiment = RegionalStore(SeedScores, s[1] + 1)] :
        s \in FeedbackStores}
    \cup
    {[EmptyDb EXCEPT !.feedback = FeedbackStore(2, 1),
                     !.regionalSentiment = RegionalStore(scores, 3)] :
        scores \in RegionalStores}

MaxTimestamp(rows) ==
    IF rows = <<>> THEN 0
    ELSE CHOOSE m \in {rows[i].timestamp : i \in DOMAIN rows} :
            \A i \in DOMAIN rows : rows[i].timestamp <= m

InitRead ==
    /\ db \in ReadStores
    /\ clock = MaxTimestamp(db.feedback)
    /\ nextId = Len(db.feedback) + Len(db.regionalSentiment) + 1
    /\ inflight = <<>>
    /\ nreq = 0
    /\ last = NoResponse
    /\ acked = {}

NextRead ==
    \/ \E query \in Upto(MaxReadRequests, ReadQueries) : GetFeedback(query)
    \/ nreq < MaxReadRequests /\ GetDashboardStats
    \/ \E rid \in DOMAIN inflight : GetFeedbackStorage(rid)
    \/ \E rid \in DOMAIN inflight : GetFeedbackRespond(rid)
    \/ \E rid \in DOMAIN inflight : StatsRegionalSentiment(rid)
    \/ \E rid \in DOMAIN inflight : StatsRecentFeedback(rid)
    \/ \E rid \in DOMAIN inflight : StatsSentimentTrends(rid)
    \/ \E rid \in DOMAIN inflight : StatsRespond(rid)

SpecRead == InitRead /\ [][NextRead]_vars


C9_TotalFeedbackIsStoreSize ==
    (last.route = "GET /api/dashboard-stats" /\ last.status = 200) =>
        last.json[1].totalFeedback \in formatCount(Len(last.snapshot))

IsTenthsText(s) ==
    /\ Len(s) >= 3
    /\ s[Len(s) - 1] = "."
    /\ \A i \in (DOMAIN s) \ {Len(s) - 1} : IsDigit(s[i])

Abs(n) == IF n < 0 THEN 0 - n ELSE n

\* C10: the summary's avgSentiment is a number with one decimal that lies
\* within half a tenth of the mean of the sentimentScore of all regional rows
\* (the mean rounded to one decimal), and is "0.0" when there is no regional
\* row; the empty table is answered like any other, never with an error.
C10_AvgSentiment ==
    /\ (last.route = "GET /api/dashboard-stats" /\ last.status = 200) =>
          LET rows == last.regionalData
              n == Len(rows)
              text == last.json[1].avgSentiment
          IN /\ IsTenthsText(text)
             /\ n = 0 => text = <<"0", ".", "0">>
             /\ n > 0 => 2 * Abs(parseFloat(text) * n - SumScores(rows)) <= n
    /\ (last.route = "GET /api/dashboard-stats" /\ last.status # 200) =>
          last.cause = "storage"

C10_Witness ==
    /\ last.route = "GET /api/dashboard-stats"
    /\ last.status = 200
    /\ Len(last.regionalData) = 2
    /\ last.regionalData[1].sentimentScore = <<"6", ".", "0">>
    /\ last.regionalData[2].sentimentScore = <<"8", ".", "0">>
    /\ last.json[1].avgSentiment = <<"7", ".", "0">>


(***************************************************************************)
(* The count format of the summary, applied to any count.                  *)
(***************************************************************************)
MaxCount == 1100

CountInputs == (0..MaxCount) \cup {43200}

InitFormat ==
    /\ db = EmptyDb
    /\ clock = 0
    /\ nextId = 1
    /\ inflight = <<>>
    /\ nreq = 0
    /\ acked = {}
    /\ \E n \in CountInputs :
          last = [NoResponse EXCEPT !.route = "totalFeedback", !.body = n]

\* totalFeedback > 1000 ? `${(totalFeedback / 1000).toFixed(1)}K` : totalFeedback.toString()
FormatTotalFeedback ==
    /\ last.route = "totalFeedback"
    /\ last.status = 0
    /\ \E text \in formatCount(last.body) :
          last' = [last EXCEPT !.status = 200, !.json = text]
    /\ UNCHANGED <<db, clock, nextId, inflight, nreq, acked>>

NextFormat == FormatTotalFeedback

SpecFormat == InitFormat /\ [][NextFormat]_vars

\* C11: the count format of n is the decimal digits of n when n <= 1000, and
\* for n > 1000 a one-decimal number within half a tenth of n/1000 followed
\* by "K"; 999 gives "999", 1000 "1000", 1001 "1.0K" and 43200 "43.2K".
C11_CountFormat ==
    (last.route = "totalFeedback" /\ last.status = 200) =>
        LET n == last.body
            text == last.json
            front == SubSeq(text, 1, Len(text) - 1)
        IN /\ n <= 1000 =>
                /\ \A i \in DOMAIN text : IsDigit(text[i])
                /\ Len(text) >= 1
                /\ Len(text) > 1 => text[1] # "0"
                /\ ParseDigits(text) = n
           /\ n > 1000 =>
                /\ text[Len(text)] = "K"
                /\ IsTenthsText(front)
                /\ Abs(100 * parseFloat(front) - n) <= 50
           /\ n = 999 => text = <<"9", "9", "9">>
           /\ n = 1000 => text = <<"1", "0", "0", "0">>
           /\ n = 1001 => text = <<"1", ".", "0", "K">>
           /\ n = 43200 => text = <<"4", "3", ".", "2", "K">>

C11_Witness ==
    /\ last.route = "totalFeedback"
    /\ last.status = 200
    /\ last.body = 43200
    /\ last.json = <<"4", "3", ".", "2", "K">>

\* C12: whatever the tables hold, the summary's responseRate is "94%", its
\* activeUsers "2.8K" and its four changes 12, 8, 5 and 15, so any two
\* summaries agree on these six fields.
C12_HardcodedFields ==
    (last.route = "GET /api/dashboard-stats" /\ last.status = 200) =>
        LET stats == last.json[1]
        IN /\ stats.responseRate = <<"9", "4", "%">>
           /\ stats.activeUsers = <<"2", ".", "8", "K">>
           /\ stats.sentimentChange = 12
           /\ stats.feedbackChange = 8
           /\ stats.responseRateChange = 5
           /\ stats.activeUsersChange = 15

C12_Witness ==
    /\ last.route = "GET /api/dashboard-stats"
    /\ last.status = 200
    /\ Len(last.snapshot) = 12
    /\ Len(last.regionalData) = 5
    /\ last.json[1].totalFeedback = <<"1", "2">>
    /\ last.json[1].avgSentiment # <<"0", ".", "0">>
    /\ last.json[1].activeUsers = <<"2", ".", "8", "K">>


(***************************************************************************)
(* Manage.tsx: the message count of the channel form.  A value is a        *)
(* sequence of characters; validateMessageCount both returns whether the   *)
(* value may be submitted and sets messageCountError.                      *)
(***************************************************************************)
NoError == "null"

InvalidFormat ==
    "Invalid format. Use numbers (e.g., 100), K suffix (e.g., 2.5K), M suffix (e.g., 1.5M), or B suffix (e.g., 3B)."

Whitespace == {" "}

\* value.trim()
RECURSIVE trim(_)
trim(value) ==
    IF value = <<>> THEN value
    ELSE IF value[1] \in Whitespace THEN trim(Tail(value))
    ELSE IF value[Len(value)] \in Whitespace
         THEN trim(SubSeq(value, 1, Len(value) - 1))
    ELSE value

\* trimmedValue.toLowerCase().includes("e")
IncludesE(s) == \E i \in DOMAIN s : s[i] \in {"e", "E"}

validateMessageCountUntrimmed(value) ==
    LET trimmedValue == value
    IN IF trimmedValue = <<>>
       THEN [valid |-> TRUE, messageCountError |-> NoError]
       ELSE IF trimmedValue[1] = "-" \/ trimmedValue[1] = "+"
       THEN [valid |-> FALSE, messageCountError |-> InvalidFormat]
       ELSE IF IncludesE(trimmedValue)
       THEN [valid |-> FALSE, messageCountError |-> InvalidFormat]
       ELSE IF ~validPattern(trimmedValue)
       THEN [valid |-> FALSE, messageCountError |-> InvalidFormat]
       ELSE [valid |-> TRUE, messageCountError |-> NoError]

validateMessageCount(value) ==
    LET trimmedValue == trim(value)
    IN IF trimmedValue = <<>>
       THEN [valid |-> TRUE, messageCountError |-> NoError]
       ELSE IF trimmedValue[1] = "-" \/ trimmedValue[1] = "+"
       THEN [valid |-> FALSE, messageCountError |-> InvalidFormat]
       ELSE IF IncludesE(trimmedValue)
       THEN [valid |-> FALSE, messageCountError |-> InvalidFormat]
       ELSE IF ~validPattern(trimmedValue)
       THEN [valid |-> FALSE, messageCountError |-> InvalidFormat]
       ELSE [valid |-> TRUE, messageCountError |-> NoError]

(***************************************************************************)
(* validateMessageCount applied to any short text over the characters that *)
(* tell its cases apart, and to the documented examples.                   *)
(***************************************************************************)
MaxInputLen == 3

InputChars == {"1", "5", ".", "K", "m", "-", "+", "e", " ", "a"}

DocumentedInputs ==
    {<<"1", "0", "0">>, <<"2", ".", "5", "K">>, <<"1", ".", "5", "M">>, <<"3", "B">>,
     <<"-", "1", "0", "0">>, <<"+", "5">>, <<"1", "e", "3">>,
     <<"2", ".", "5", ".", "3", "K">>, <<"1", "0", "K", "M">>, <<"a", "b", "c">>,
     <<" ", "1", "0", "0", " ">>, <<"2", ".", "5", "K", " ">>, <<"1", "E", "3">>,
     <<"1", "0", "k", "m", "b">>, <<"2", ".", "5", "b">>}

ValidateInputs ==
    UNION {[1..n -> InputChars] : n \in 0..MaxInputLen} \cup DocumentedInputs

InitValidate ==
    /\ db = EmptyDb
    /\ clock = 0
    /\ nextId = 1
    /\ inflight = <<>>
    /\ nreq = 0
    /\ acked = {}
    /\ \E value \in ValidateInputs :
          last = [NoResponse EXCEPT !.route = "validateMessageCount", !.body = value]

ValidateMessageCount ==
    /\ last.route = "validateMessageCount"
    /\ last.status = 0
    /\ last' = [last EXCEPT !.status = 200,
                            !.json = <<validateMessageCount(last.body)>>]
    /\ UNCHANGED <<db, clock, nextId, inflight, nreq, acked>>

NextValidate == ValidateMessageCount

SpecValidate == InitValidate /\ [][NextValidate]_vars

\* the text without the whitespace at its two ends
Trimmed(s) ==
    LET inner == {i \in DOMAIN s : s[i] # " "}
    IN IF inner = {} THEN <<>>
       ELSE LET first == CHOOSE i \in inner : \A k \in inner : i <= k
                lastChar == CHOOSE i \in inner : \A k \in inner : k <= i
            IN SubSeq(s, first, lastChar)

\* digits with at most one '.', which stands between two digits, then at
\* most one of the letters K, k, M, m, B, b
IsMessageCount(s) ==
    LET number == IF s # <<>> /\ s[Len(s)] \in {"K", "k", "M", "m", "B", "b"}
                  THEN SubSeq(s, 1, Len(s) - 1) ELSE s
        dots == {i \in DOMAIN number : number[i] = "."}
    IN /\ number # <<>>
       /\ \A i \in DOMAIN number : IsDigit(number[i]) \/ number[i] = "."
       /\ Cardinality(dots) <= 1
       /\ \A i \in dots : 1 < i /\ i < Len(number)

\* C13: a value that is not empty after trimming is accepted by
\* validateMessageCount exactly when its trimmed text is digits, optionally
\* '.' and digits, optionally one letter of K, k, M, m, B, b; an accepted
\* value clears the error and a rejected one sets it.
C13_ValidateMessageCount ==
    (last.route = "validateMessageCount" /\ last.status = 200) =>
        LET value == last.body
            result == last.json[1]
        IN /\ Trimmed(value) # <<>> => (result.valid <=> IsMessageCount(Trimmed(value)))
           /\ result.valid <=> result.messageCountError = NoError
           /\ value \in {<<"1", "0", "0">>, <<"2", ".", "5", "K">>,
                         <<"1", ".", "5", "M">>, <<"3", "B">>} => result.valid
           /\ value \in {<<"-", "1", "0", "0">>, <<"+", "5">>, <<"1", "e", "3">>,
                         <<"2", ".", "5", ".", "3", "K">>, <<"1", "0", "K", "M">>,
                         <<"a", "b", "c">>} => ~result.valid

C13_Witness ==
    /\ last.route = "validateMessageCount"
    /\ last.status = 200
    /\ last.body = <<"2", ".", "5", "K", " ">>
    /\ last.json[1].valid


(***************************************************************************)
(* Manage.tsx: the channel form.  The page's state is kept in last.body;   *)
(* a create request the form has issued is in flight until the mutation    *)
(* settles.  The browser submits the form only through its enabled submit  *)
(* button and only when no required field is empty.                        *)
(***************************************************************************)
MaxSubmits == 2

ChannelNames == {"", "Email"}

TypedMessageCounts ==
    {<<>>, <<" ", " ">>, <<"2", ".", "5", "K">>, <<"1", "0", "K", "M">>,
     <<" ", "1", "0", "0", " ">>}

\* useState("") / useState("active") / useState("0") / useState(null)
ManageState ==
    [channelName |-> "", channelStatus |-> "active",
     channelMessageCount |-> <<"0">>, messageCountError |-> NoError,
     validated |-> <<"0">>]

Page(state) == [NoResponse EXCEPT !.route = "Manage", !.body = state]

InitManage ==
    /\ db = EmptyDb
    /\ clock = 0
    /\ nextId = 1
    /\ inflight = <<>>
    /\ nreq = 0
    /\ acked = {}
    /\ last = Page(ManageState)

\* addChannelMutation.isPending
isPending == DOMAIN inflight # {}

\* the submit button's disabled attribute
SubmitDisabled == isPending \/ last.body.messageCountError # NoError

\* the required attribute of the name and message count inputs
RequiredFilled == last.body.channelName # "" /\ last.body.channelMessageCount # <<>>

setChannelName(name) ==
    /\ last' = [last EXCEPT !.body.channelName = name]
    /\ UNCHANGED <<db, clock, nextId, inflight, nreq, acked>>

setChannelStatus(status) ==
    /\ last' = [last EXCEPT !.body.channelStatus = status]
    /\ UNCHANGED <<db, clock, nextId, inflight, nreq, acked>>

handleMessageCountChangeUnchecked(value) ==
    /\ last' = [last EXCEPT !.body.channelMessageCount = value,
                            !.body.validated = value]
    /\ UNCHANGED <<db, clock, nextId, inflight, nreq, acked>>

\* validated is the value validateMessageCount was last called with
handleMessageCountChange(value) ==
    /\ last' = [last EXCEPT
                  !.body.channelMessageCount = value,
                  !.body.messageCountError = validateMessageCount(value).messageCountError,
                  !.body.validated = value]
    /\ UNCHANGED <<db, clock, nextId, inflight, nreq, acked>>

handleAddChannel ==
    LET state == last.body
        checked == validateMessageCount(state.channelMessageCount)
    IN /\ ~SubmitDisabled
       /\ RequiredFilled
       /\ IF ~checked.valid
          THEN /\ last' = [last EXCEPT !.body.messageCountError = checked.messageCountError,
                                       !.body.validated = state.channelMessageCount]
               /\ UNCHANGED <<inflight, nreq>>
          ELSE /\ last' = [last EXCEPT !.body.messageCountError = checked.messageCountError,
                                       !.body.validated = state.channelMessageCount]
               /\ Suspend(NewRequest("POST /api/channels",
                                     [name |-> S(state.channelName),
                                      status |-> S(state.channelStatus),
                                      messageCount |-> Text(state.channelMessageCount)],
                                     <<>>))
       /\ UNCHANGED <<db, clock, nextId, acked>>

\* onSuccess: the form is reset
addChannelSuccess(rid) ==
    /\ last' = [last EXCEPT !.body.channelName = "",
                            !.body.channelMessageCount = <<"0">>,
                            !.body.messageCountError = NoError]
    /\ Resume(rid)
    /\ UNCHANGED <<db, clock, nextId, nreq, acked>>

\* onError: a toast, the form keeps its values
addChannelError(rid) ==
    /\ Resume(rid)
    /\ UNCHANGED <<db, clock, nextId, nreq, last, acked>>

NextManage ==
    \/ \E name \in ChannelNames : setChannelName(name)
    \/ \E status \in Statuses : setChannelStatus(status)
    \/ \E value \in TypedMessageCounts : handleMessageCountChange(value)
    \/ nreq < MaxSubmits /\ handleAddChannel
    \/ \E rid \in DOMAIN inflight : addChannelSuccess(rid)
    \/ \E rid \in DOMAIN inflight : addChannelError(rid)

SpecManage == InitManage /\ [][NextManage]_vars

\* C14: no create-channel request issued by the form carries a message
\* count that is empty after trimming.
C14_NoBlankMessageCountSent ==
    \A rid \in DOMAIN inflight :
        inflight[rid].route = "POST /api/channels" =>
            Trimmed(inflight[rid].body.messageCount.v) # <<>>


(***************************************************************************)
(* The Prioritization page.  PriorityList and PrioritizationMatrix read    *)
(* the same array, the data of the query ["/api/priority-items"], which    *)
(* last.body.priorityData holds.  loaded is that array as the API          *)
(* delivered it and before the array as it was when PriorityList last      *)
(* started to render.                                                      *)
(***************************************************************************)
MaxItems == 3

MaxScore == 10

Item(id, rank, impact, effort) ==
    [id |-> id, title |-> "Mobile App UX", rank |-> rank, impact |-> impact,
     effort |-> effort]

\* <<rank, impact, effort>>
ItemKinds == {<<1, 9, 3>>, <<2, 9, 6>>, <<1, 4, 2>>, <<3, 7, 8>>}

PriorityArrays ==
    {<<Item(1, 1, impact, effort)>> : impact \in 1..MaxScore, effort \in 1..MaxScore}
    \cup
    UNION {{[i \in 1..n |-> Item(i, kinds[i][1], kinds[i][2], kinds[i][3])] :
               kinds \in [1..n -> ItemKinds]} : n \in 0..MaxItems}
    \cup
    {[i \in 1..7 |-> Item(i, 8 - i, i, i + 3)]}

PrioritizationState(priorityData) ==
    [priorityData |-> priorityData, loaded |-> priorityData, before |-> priorityData,
     listRendered |-> FALSE, sortedItems |-> <<>>,
     matrixRendered |-> FALSE, plotted |-> <<>>, clicked |-> "none"]

InitPriority ==
    /\ db = EmptyDb
    /\ clock = 0
    /\ nextId = 1
    /\ inflight = <<>>
    /\ nreq = 0
    /\ acked = {}
    /\ \E priorityData \in PriorityArrays :
          last = [NoResponse EXCEPT !.route = "Prioritization",
                                    !.body = PrioritizationState(priorityData)]

\* array.sort((a, b) => a.rank - b.rank): a stable sort, done in place
RECURSIVE sortByRankDescending(_)
sortByRankDescending(array) ==
    IF array = <<>> THEN <<>>
    ELSE LET front == sortByRankDescending(SubSeq(array, 1, Len(array) - 1))
             b == array[Len(array)]
             k == Cardinality({i \in DOMAIN front : b.rank - front[i].rank <= 0})
         IN SubSeq(front, 1, k) \o <<b>> \o SubSeq(front, k + 1, Len(front))

RECURSIVE sortByRank(_)
sortByRank(array) ==
    IF array = <<>> THEN <<>>
    ELSE LET front == sortByRank(SubSeq(array, 1, Len(array) - 1))
             b == array[Len(array)]
             k == Cardinality({i \in DOMAIN front : front[i].rank - b.rank <= 0})
         IN SubSeq(front, 1, k) \o <<b>> \o SubSeq(front, k + 1, Len(front))

\* const sortedItems = priorityData?.sort(...) || []: sort returns the array
\* it was called on, now sorted
RenderPriorityList ==
    LET state == last.body
        sorted == sortByRank(state.priorityData)
    IN /\ last.route = "Prioritization"
       /\ last' = [last EXCEPT !.body.before = state.priorityData,
                               !.body.priorityData = sorted,
                               !.body.sortedItems = sorted,
                               !.body.listRendered = TRUE]
       /\ UNCHANGED <<db, clock, nextId, inflight, nreq, acked>>

\* the buttons "By Impact" and "By Effort" carry no handler
SortButtons == {"By Impact", "By Effort"}

ClickSortButton(button) ==
    /\ last.route = "Prioritization"
    /\ last.body.listRendered
    /\ last' = [last EXCEPT !.body.clicked = button]
    /\ UNCHANGED <<db, clock, nextId, inflight, nreq, acked>>

\* priorityData?.slice(0, 6) || []
matrixItems(priorityData) == SubSeq(priorityData, 1, Min(6, Len(priorityData)))

\* (item.effort / 10) * 100, which in doubles is exactly 10 * effort for
\* every integer effort in 0..10
plotX(item) == (item.effort * 100) \div 10

plotYNotInverted(item) == (item.impact * 100) \div 10

\* 100 - (item.impact / 10) * 100
plotY(item) == 100 - (item.impact * 100) \div 10

\* the 2 x 2 grid fills the square in document order: row 1 holds the first
\* two cells, row 2 the last two
QuadrantGrid == <<<<"Fill Ins", "Quick Wins">>, <<"Hard Slogs", "Major Projects">>>>

\* the rows (columns) of the grid that a point at percent p from the top
\* (left) lies in; a point at 50 lies on the line between the two
HalvesAt(p) == IF p < 50 THEN {1} ELSE IF p > 50 THEN {2} ELSE {1, 2}

RenderMatrix ==
    LET items == matrixItems(last.body.priorityData)
    IN /\ last.route = "Prioritization"
       /\ \E cells \in [DOMAIN items -> {1, 2} \X {1, 2}] :
             /\ \A i \in DOMAIN items :
                   /\ cells[i][1] \in HalvesAt(plotY(items[i]))
                   /\ cells[i][2] \in HalvesAt(plotX(items[i]))
             /\ last' = [last EXCEPT
                           !.body.matrixRendered = TRUE,
                           !.body.plotted =
                              [i \in DOMAIN items |->
                                  [item |-> items[i], x |-> plotX(items[i]),
                                   y |-> plotY(items[i]),
                                   label |-> QuadrantGrid[cells[i][1]][cells[i][2]]]]]
       /\ UNCHANGED <<db, clock, nextId, inflight, nreq, acked>>

NextPriority ==
    \/ RenderPriorityList
    \/ \E button \in SortButtons : ClickSortButton(button)
    \/ RenderMatrix

SpecPriority == InitPriority /\ [][NextPriority]_vars


(***************************************************************************)
(* Properties of the Prioritization page.                                  *)
(***************************************************************************)
Pos(array, id) == CHOOSE i \in DOMAIN array : array[i].id = id

IsPermutation(out, in) ==
    /\ Len(out) = Len(in)
    /\ \A i \in DOMAIN in : \E j \in DOMAIN out : out[j] = in[i]
    /\ \A i \in DOMAIN out : \A j \in DOMAIN out : out[i].id = out[j].id => i = j

\* out orders in by key, ascending (sign 1) or descending (sign -1), and
\* keeps the order of in between items of equal key
IsStableOrdering(out, in, key, sign) ==
    /\ IsPermutation(out, in)
    /\ \A i \in DOMAIN out : \A j \in DOMAIN out :
          i < j => /\ sign * out[i][key] <= sign * out[j][key]
                   /\ out[i][key] = out[j][key] =>
                         Pos(in, out[i].id) < Pos(in, out[j].id)

\* C15: the list shown is the items in ascending order of rank, items of
\* equal rank in their order in the input; it is a permutation of the input,
\* and sorting it again gives the same list.
C15_ListSortedByRank ==
    (last.route = "Prioritization" /\ last.body.listRendered) =>
        /\ IsStableOrdering(last.body.sortedItems, last.body.before, "rank", 1)
        /\ sortByRank(last.body.sortedItems) = last.body.sortedItems

C15_Witness ==
    /\ last.route = "Prioritization"
    /\ last.body.listRendered
    /\ Len(last.body.loaded) = 3
    /\ last.body.before = last.body.loaded
    /\ last.body.loaded[1].rank = 2
    /\ last.body.loaded[2].rank = 1
    /\ last.body.loaded[3].rank = 1
    /\ last.body.sortedItems[1].id = 2
    /\ last.body.sortedItems[2].id = 3
    /\ last.body.sortedItems[3].id = 1

\* C16: after PriorityList has rendered, the array of the query holds its
\* items in the order in which the API delivered them.
C16_QueryDataNotMutated ==
    (last.route = "Prioritization" /\ last.body.listRendered) =>
        last.body.priorityData = last.body.loaded

\* C17: after "By Impact" is activated the list shows the items by impact
\* descending, after "By Effort" by effort ascending, both stable.
C17_SortButtonsReorder ==
    /\ (last.route = "Prioritization" /\ last.body.clicked = "By Impact") =>
          IsStableOrdering(last.body.sortedItems, last.body.before, "impact", -1)
    /\ (last.route = "Prioritization" /\ last.body.clicked = "By Effort") =>
          IsStableOrdering(last.body.sortedItems, last.body.before, "effort", 1)

QuadrantRule(impact, effort) ==
    IF impact > 5
    THEN IF effort <= 5 THEN "Quick Wins" ELSE "Major Projects"
    ELSE IF effort <= 5 THEN "Fill Ins" ELSE "Hard Slogs"

\* C18: the cell in which an item's circle is drawn carries the label the
\* quadrant rule gives to the item's impact and effort.
C18_CircleInLabelledQuadrant ==
    (last.route = "Prioritization" /\ last.body.matrixRendered) =>
        \A i \in DOMAIN last.body.plotted :
            LET p == last.body.plotted[i]
            IN (p.item.impact \in 1..10 /\ p.item.effort \in 1..10) =>
                  p.label = QuadrantRule(p.item.impact, p.item.effort)

\* C19: an item of impact and effort in 1..10 is plotted at x = effort * 10
\* and y = 100 - impact * 10; of two plotted items the one of higher impact
\* has the smaller y and the one of higher effort the larger x.
C19_PlotPosition ==
    (last.route = "Prioritization" /\ last.body.matrixRendered) =>
        LET plotted == last.body.plotted
        IN /\ \A i \in DOMAIN plotted :
                 (plotted[i].item.impact \in 1..10 /\ plotted[i].item.effort \in 1..10) =>
                    /\ plotted[i].x = plotted[i].item.effort * 10
                    /\ plotted[i].y = 100 - plotted[i].item.impact * 10
           /\ \A i \in DOMAIN plotted : \A j \in DOMAIN plotted :
                 /\ plotted[i].item.impact > plotted[j].item.impact =>
                       plotted[i].y < plotted[j].y
                 /\ plotted[i].item.effort > plotted[j].item.effort =>
                       plotted[i].x > plotted[j].x

C19_Witness ==
    /\ last.route = "Prioritization"
    /\ last.body.matrixRendered
    /\ Len(last.body.plotted) = 1
    /\ last.body.plotted[1].item.impact = 8
    /\ last.body.plotted[1].item.effort = 3
    /\ last.body.plotted[1].x = 30
    /\ last.body.plotted[1].y = 20


(***************************************************************************)
(* routes.ts: the routes that only read the tables the seed script fills.  *)
(***************************************************************************)
GetRegionalSentiment ==
    GetReceive("GET /api/regional-sentiment", "regionalSentiment", <<>>, <<>>)

getRegionalSentiment(rid) ==
    /\ At(rid, "GET /api/regional-sentiment", "storage")
    /\ \/ Selected(rid, "regionalSentiment", db.regionalSentiment)
       \/ StorageThrows(rid)

GetRegionalSentimentRespond(rid) ==
    /\ At(rid, "GET /api/regional-sentiment", "respond")
    /\ GetRespond(rid, "Failed to fetch regional sentiment")

\* period=daily calls storage.getDailySentimentTrends, which storage.ts does
\* not define: the call throws inside the try block and the catch answers
GetSentimentTrends(query) ==
    IF query.period = S("daily")
    THEN /\ CanReceive
         /\ Send([NoResponse EXCEPT !.route = "GET /api/sentiment-trends",
                                    !.status = 500,
                                    !.error = "Failed to fetch sentiment trends",
                                    !.body = query,
                                    !.cause = "TypeError"])
         /\ nreq' = nreq + 1
         /\ UNCHANGED <<db, clock, nextId, inflight, acked>>
    ELSE GetReceive("GET /api/sentiment-trends", "sentimentTrends", <<>>, <<>>)

getSentimentTrends(rid) ==
    /\ At(rid, "GET /api/sentiment-trends", "storage")
    /\ \/ Selected(rid, "sentimentTrends", db.sentimentTrends)
       \/ StorageThrows(rid)

GetSentimentTrendsRespond(rid) ==
    /\ At(rid, "GET /api/sentiment-trends", "respond")
    /\ GetRespond(rid, "Failed to fetch sentiment trends")

GetImpactMetrics == GetReceive("GET /api/impact-metrics", "impactMetrics", <<>>, <<>>)

getImpactMetrics(rid) ==
    /\ At(rid, "GET /api/impact-metrics", "storage")
    /\ \/ Selected(rid, "impactMetrics", db.impactMetrics)
       \/ StorageThrows(rid)

GetImpactMetricsRespond(rid) ==
    /\ At(rid, "GET /api/impact-metrics", "respond")
    /\ GetRespond(rid, "Failed to fetch impact metrics")

GetUsageMetrics == GetReceive("GET /api/usage-metrics", "usageMetrics", <<>>, <<>>)

getUsageMetrics(rid) ==
    /\ At(rid, "GET /api/usage-metrics", "storage")
    /\ \/ Selected(rid, "usageMetrics", db.usageMetrics)
       \/ StorageThrows(rid)

GetUsageMetricsRespond(rid) ==
    /\ At(rid, "GET /api/usage-metrics", "respond")
    /\ GetRespond(rid, "Failed to fetch usage metrics")


(***************************************************************************)
(* Every route of the API, over the tables as the seed script leaves them  *)
(* (one row kept of each table but the regional and the feedback one).     *)
(***************************************************************************)
MaxApiRequests == 2

SeededDb ==
    [regionalSentiment |-> RegionalStore(SeedScores, 1),
     feedback |-> FeedbackStore(2, 1),
     sentimentTrends |-> <<[id |-> 1, month |-> "Jan", score |-> <<"7", ".", "2">>,
                            year |-> 2024]>>,
     priorityItems |-> <<[id |-> 1, title |-> "Mobile App UX Improvements",
                          description |-> "Simplify navigation and add search functionality",
                          impact |-> 9, effort |-> 3, category |-> "Product",
                          rank |-> 1]>>,
     aiInsights |-> <<[id |-> 1, title |-> "Improve Mobile App Navigation",
                       description |-> "Consider adding a search function",
                       priority |-> "high",
                       impact |-> "Potential 15% reduction in support tickets",
                       createdAt |-> 0]>>,
     impactMetrics |-> <<[id |-> 1, metricName |-> "Time to Resolution",
                          beforeValue |-> "4.2", afterValue |-> "1.5",
                          improvement |-> 64, unit |-> "hours"]>>,
     usageMetrics |-> <<[id |-> 1, week |-> "Week 1", dailyActiveUsers |-> 1200,
                         satisfactionScore |-> <<"7", ".", "2">>]>>,
     channels |-> <<[id |-> 1, name |-> "Twitter", status |-> "active",
                     messageCount |-> <<"1", "2", ".", "5", "K">>]>>]

TrendQueries ==
    {[period |-> p, days |-> d] : p \in {Undefined, S("daily")}, d \in {Undefined, S("7")}}

InitApi ==
    /\ db = SeededDb
    /\ clock = MaxTimestamp(db.feedback)
    /\ nextId = 6
    /\ inflight = <<>>
    /\ nreq = 0
    /\ last = NoResponse
    /\ acked = {}

NextApi ==
    \/ \E body \in Upto(MaxApiRequests, {FeedbackBody(S("positive")), FeedbackBody(Undefined)}) :
          PostFeedback(body)
    \/ \E body \in Upto(MaxApiRequests, {PriorityItemBody(N(8), N(3), N(1))}) :
          PostPriorityItem(body)
    \/ \E body \in Upto(MaxApiRequests, {AIInsightBody(S("high"))}) : PostAIInsight(body)
    \/ \E body \in Upto(MaxApiRequests,
                        {ChannelBody(S("active"), Text(<<"2", ".", "5", "K">>))}) :
          PostChannel(body)
    \/ \E query \in Upto(MaxApiRequests, {[limit |-> UndefinedText]}) : GetFeedback(query)
    \/ \E query \in Upto(MaxApiRequests, TrendQueries) : GetSentimentTrends(query)
    \/ nreq < MaxApiRequests /\ GetRegionalSentiment
    \/ nreq < MaxApiRequests /\ GetPriorityItems
    \/ nreq < MaxApiRequests /\ GetAIInsights
    \/ nreq < MaxApiRequests /\ GetImpactMetrics
    \/ nreq < MaxApiRequests /\ GetUsageMetrics
    \/ nreq < MaxApiRequests /\ GetChannels
    \/ nreq < MaxApiRequests /\ GetDashboardStats
    \/ \E rid \in DOMAIN inflight : createFeedback(rid)
    \/ \E rid \in DOMAIN inflight : PostFeedbackRespond(rid)
    \/ \E rid \in DOMAIN inflight : createPriorityItem(rid)
    \/ \E rid \in DOMAIN inflight : PostPriorityItemRespond(rid)
    \/ \E rid \in DOMAIN inflight : createAIInsight(rid)
    \/ \E rid \in DOMAIN inflight : PostAIInsightRespond(rid)
    \/ \E rid \in DOMAIN inflight : createChannel(rid)
    \/ \E rid \in DOMAIN inflight : PostChannelRespond(rid)
    \/ \E rid \in DOMAIN inflight : GetFeedbackStorage(rid)
    \/ \E rid \in DOMAIN inflight : GetFeedbackRespond(rid)
    \/ \E rid \in DOMAIN inflight : getSentimentTrends(rid)
    \/ \E rid \in DOMAIN inflight : GetSentimentTrendsRespond(rid)
    \/ \E rid \in DOMAIN inflight : getRegionalSentiment(rid)
    \/ \E rid \in DOMAIN inflight : GetRegionalSentimentRespond(rid)
    \/ \E rid \in DOMAIN inflight : getPriorityItems(rid)
    \/ \E rid \in DOMAIN inflight : GetPriorityItemsRespond(rid)
    \/ \E rid \in DOMAIN inflight : GetAIInsightsStorage(rid)
    \/ \E rid \in DOMAIN inflight : GetAIInsightsRespond(rid)
    \/ \E rid \in DOMAIN inflight : getImpactMetrics(rid)
    \/ \E rid \in DOMAIN inflight : GetImpactMetricsRespond(rid)
    \/ \E rid \in DOMAIN inflight : getUsageMetrics(rid)
    \/ \E rid \in DOMAIN inflight : GetUsageMetricsRespond(rid)
    \/ \E rid \in DOMAIN inflight : getChannels(rid)
    \/ \E rid \in DOMAIN inflight : GetChannelsRespond(rid)
    \/ \E rid \in DOMAIN inflight : StatsRegionalSentiment(rid)
    \/ \E rid \in DOMAIN inflight : StatsRecentFeedback(rid)
    \/ \E rid \in DOMAIN inflight : StatsSentimentTrends(rid)
    \/ \E rid \in DOMAIN inflight : StatsRespond(rid)

SpecApi == InitApi /\ [][NextApi]_vars

CreatedTables == {"feedback", "priorityItems", "aiInsights", "channels"}

\* what one step of a request does to the tables
TablesKeptOrOneAppended ==
    \/ db' = db
    \/ \E t \in CreatedTables :
          /\ Len(db'[t]) = Len(db[t]) + 1
          /\ SubSeq(db'[t], 1, Len(db[t])) = db[t]
          /\ \A u \in Tables \ {t} : db'[u] = db[u]

\* C20: no step of any request changes or removes a stored row or touches
\* the regional sentiment, sentiment trend, impact metric and usage metric
\* tables; a step leaves every table alone or appends one row to one of
\* feedback, priority items, AI insights and channels, and a request as a
\* whole appends at most one row.
C20_RequestsOnlyAppend ==
    /\ [][TablesKeptOrOneAppended]_vars
    /\ [](\A rid \in DOMAIN inflight :
             /\ inflight[rid].added \in {0, 1}
             /\ inflight[rid].added = 1 =>
                   /\ inflight[rid].pc = "respond"
                   /\ IsCreate(inflight[rid].route))
    /\ [](last.added \in {0, 1})

C20_Witness ==
    /\ db.regionalSentiment = SeededDb.regionalSentiment
    /\ db.sentimentTrends = SeededDb.sentimentTrends
    /\ db.impactMetrics = SeededDb.impactMetrics
    /\ db.usageMetrics = SeededDb.usageMetrics
    /\ Len(db.feedback) = 3
    /\ Len(db.channels) = 2
    /\ last.status = 201
    /\ nreq = 2


(***************************************************************************)
(* Properties of the Manage page.                                          *)
(***************************************************************************)
OneCreateOfAcceptedValue ==
    /\ SubmitDisabled <=>
          (DOMAIN inflight # {} \/ last.body.messageCountError # NoError)
    /\ Cardinality(DOMAIN inflight) <= 1
    /\ \A rid \in DOMAIN inflight :
          LET value == inflight[rid].body.messageCount.v
          IN /\ validateMessageCount(value).valid
             /\ Trimmed(value) = <<>> \/ IsMessageCount(Trimmed(value))

Rejected(value) == Trimmed(value) # <<>> /\ ~IsMessageCount(Trimmed(value))

\* C21 as stated: in the channel form messageCountError is set exactly when
\* the value last validated was rejected; the submit button is disabled
\* exactly when a create is pending or the error is set; and a create
\* request carries only a value that validateMessageCount accepts.
C21_ErrorOfLastValidated ==
    last.route = "Manage" =>
        /\ (last.body.messageCountError # NoError) <=> Rejected(last.body.validated)
        /\ OneCreateOfAcceptedValue

\* C21 amended: messageCountError is set exactly when the value the message
\* count field holds is rejected (the reset after a successful create
\* clears the error together with the value, without validating); the
\* submit button is disabled exactly when a create is pending or the error
\* is set, so at most one create is pending; and a create request carries
\* only a value that validateMessageCount accepts.
C21_ChannelFormGuards ==
    last.route = "Manage" =>
        /\ (last.body.messageCountError # NoError) <=>
              Rejected(last.body.channelMessageCount)
        /\ OneCreateOfAcceptedValue

C21_Witness ==
    /\ last.route = "Manage"
    /\ last.body.channelMessageCount = <<"1", "0", "K", "M">>
    /\ last.body.messageCountError = InvalidFormat
    /\ \E rid \in DOMAIN inflight :
          inflight[rid].body.messageCount.v = <<"2", ".", "5", "K">>


(***************************************************************************)
(* Manage.tsx with queryClient.ts: the three mutations against the server. *)
(* last.body holds the page: the form fields a mutation resets, the query  *)
(* keys invalidated and the toast shown when a mutation last settled, and  *)
(* what settled.  A request is in flight from mutate until its mutation    *)
(* settles; the server parses the body when it arrives, runs the insert    *)
(* and answers.                                                            *)
(***************************************************************************)
MaxMutations == 2

MutationsPage ==
    [feedbackText |-> "", priorityTitle |-> "", priorityDescription |-> "",
     channelName |-> "", channelMessageCount |-> <<"0">>,
     messageCountError |-> NoError,
     invalidated |-> {}, toast |-> "none",
     settled |-> [route |-> "none", status |-> 0, path |-> "none"]]

FormFields == {"feedbackText", "priorityTitle", "priorityDescription", "channelName",
               "channelMessageCount", "messageCountError"}

InitMutations ==
    /\ db = EmptyDb
    /\ clock = 0
    /\ nextId = 1
    /\ inflight = <<>>
    /\ nreq = 0
    /\ acked = {}
    /\ last = Page(MutationsPage)

\* the form's text fields, typed in
TypeField(name, text) ==
    /\ name \in {"feedbackText", "priorityTitle", "priorityDescription", "channelName"}
    /\ last' = [last EXCEPT !.body[name] = text]
    /\ UNCHANGED <<db, clock, nextId, inflight, nreq, acked>>

TypeMessageCount(value) ==
    /\ last' = [last EXCEPT
                  !.body.channelMessageCount = value,
                  !.body.messageCountError = validateMessageCount(value).messageCountError]
    /\ UNCHANGED <<db, clock, nextId, inflight, nreq, acked>>

Pending(route) == \E rid \in DOMAIN inflight : inflight[rid].route = route

\* apiRequest: fetch(url, {method, body}); the handler parses the body and,
\* when it is accepted, awaits the insert
Fetch(route, body, parsed) ==
    /\ IF parsed.success
       THEN Suspend(NewRequest(route, body, parsed.data))
       ELSE Suspend([NewRequest(route, body, <<>>) EXCEPT !.failed = TRUE,
                                                          !.pc = "respond"])
    /\ UNCHANGED <<db, clock, nextId, last, acked>>

MutateFeedback ==
    LET body == [text |-> S(last.body.feedbackText), sentiment |-> S("positive"),
                 source |-> S("Twitter"), region |-> S("Northeast")]
    IN /\ ~Pending("POST /api/feedback")
       /\ last.body.feedbackText # ""
       /\ Fetch("POST /api/feedback", body, insertFeedbackSchema(body))

MutatePriority ==
    LET body == [title |-> S(last.body.priorityTitle),
                 description |-> S(last.body.priorityDescription),
                 impact |-> N(5), effort |-> N(5), category |-> S("Product"),
                 rank |-> N(1)]
    IN /\ ~Pending("POST /api/priority-items")
       /\ last.body.priorityTitle # ""
       /\ last.body.priorityDescription # ""
       /\ Fetch("POST /api/priority-items", body, insertPriorityItemSchema(body))

MutateChannel ==
    LET body == [name |-> S(last.body.channelName), status |-> S("active"),
                 messageCount |-> Text(last.body.channelMessageCount)]
    IN /\ ~Pending("POST /api/channels")
       /\ last.body.messageCountError = NoError
       /\ last.body.channelName # ""
       /\ last.body.channelMessageCount # <<>>
       /\ validateMessageCount(last.body.channelMessageCount).valid
       /\ Fetch("POST /api/channels", body, insertChannelSchema(body))

ResOkAlways(status) == TRUE

\* res.ok
ResOk(status) == status \in 200..299

\* throwIfResNotOk, then the mutation's onSuccess or onError
Settle(rid, route, success, error) ==
    LET r == inflight[rid]
        status == PostStatus(r.failed)
    IN /\ At(rid, route, "respond")
       /\ IF ResOk(status)
          THEN last' = [last EXCEPT
                          !.body = [success EXCEPT
                                      !.settled = [route |-> route, status |-> status,
                                                   path |-> "success"]]]
          ELSE last' = [last EXCEPT
                          !.body = [error EXCEPT
                                      !.settled = [route |-> route, status |-> status,
                                                   path |-> "error"]]]
       /\ Resume(rid)
       /\ UNCHANGED <<db, clock, nextId, nreq, acked>>

addFeedbackSettled(rid) ==
    Settle(rid, "POST /api/feedback",
           [last.body EXCEPT !.invalidated = {"/api/feedback", "/api/dashboard-stats"},
                             !.toast = "Feedback added successfully",
                             !.feedbackText = ""],
           [last.body EXCEPT !.invalidated = {}, !.toast = "Failed to add feedback"])

addPrioritySettled(rid) ==
    Settle(rid, "POST /api/priority-items",
           [last.body EXCEPT !.invalidated = {"/api/priority-items"},
                             !.toast = "Priority item added successfully",
                             !.priorityTitle = "",
                             !.priorityDescription = ""],
           [last.body EXCEPT !.invalidated = {},
                             !.toast = "Failed to add priority item"])

addChannelSettled(rid) ==
    Settle(rid, "POST /api/channels",
           [last.body EXCEPT !.invalidated = {"/api/channels"},
                             !.toast = "Channel added successfully",
                             !.channelName = "",
                             !.channelMessageCount = <<"0">>,
                             !.messageCountError = NoError],
           [last.body EXCEPT !.invalidated = {}, !.toast = "Failed to add channel"])

NextMutations ==
    \/ TypeField("feedbackText", "Great support")
    \/ TypeField("priorityTitle", "Onboarding")
    \/ TypeField("priorityDescription", "Shorten it")
    \/ TypeField("channelName", "Email")
    \/ \E value \in {<<"2", ".", "5", "K">>, <<"1", "0", "K", "M">>} : TypeMessageCount(value)
    \/ nreq < MaxMutations /\ MutateFeedback
    \/ nreq < MaxMutations /\ MutatePriority
    \/ nreq < MaxMutations /\ MutateChannel
    \/ \E rid \in DOMAIN inflight : createFeedback(rid)
    \/ \E rid \in DOMAIN inflight : createPriorityItem(rid)
    \/ \E rid \in DOMAIN inflight : createChannel(rid)
    \/ \E rid \in DOMAIN inflight : addFeedbackSettled(rid)
    \/ \E rid \in DOMAIN inflight : addPrioritySettled(rid)
    \/ \E rid \in DOMAIN inflight : addChannelSettled(rid)

SpecMutations == InitMutations /\ [][NextMutations]_vars


MatchingQueries(route) ==
    CASE route = "POST /api/feedback" -> {"/api/feedback", "/api/dashboard-stats"}
      [] route = "POST /api/priority-items" -> {"/api/priority-items"}
      [] route = "POST /api/channels" -> {"/api/channels"}

SuccessToast(route) ==
    CASE route = "POST /api/feedback" -> "Feedback added successfully"
      [] route = "POST /api/priority-items" -> "Priority item added successfully"
      [] route = "POST /api/channels" -> "Channel added successfully"

ResetFields(route) ==
    CASE route = "POST /api/feedback" -> {"feedbackText"}
      [] route = "POST /api/priority-items" -> {"priorityTitle", "priorityDescription"}
      [] route = "POST /api/channels" -> {"channelName", "channelMessageCount",
                                          "messageCountError"}

SettledAs(rid) ==
    LET r == inflight[rid]
        before == last.body
        after == last'.body
    IN IF r.added = 1
       THEN /\ after.settled = [route |-> r.route, status |-> 201, path |-> "success"]
            /\ after.invalidated = MatchingQueries(r.route)
            /\ after.toast = SuccessToast(r.route)
            /\ \A f \in FormFields :
                  after[f] = IF f \in ResetFields(r.route) THEN MutationsPage[f]
                                                           ELSE before[f]
       ELSE /\ after.settled.route = r.route
            /\ after.settled.status \notin 200..299
            /\ after.settled.path = "error"
            /\ after.invalidated = {}
            /\ after.toast \notin {SuccessToast(route) : route \in
                  {"POST /api/feedback", "POST /api/priority-items", "POST /api/channels"}}
            /\ \A f \in FormFields : after[f] = before[f]

\* C22: when a Manage-page mutation settles, the success path (the success
\* toast, the form reset, the invalidation of the matching list query and,
\* for feedback, of dashboard-stats) runs exactly when the server stored the
\* record and answered 2xx; otherwise the error path runs, no query is
\* invalidated and no form field changes.
C22_SuccessPathExactlyOn2xx ==
    [][\A rid \in DOMAIN inflight : rid \notin DOMAIN inflight' => SettledAs(rid)]_vars

C22_Witness ==
    /\ last.body.settled = [route |-> "POST /api/channels", status |-> 400,
                            path |-> "error"]
    /\ last.body.channelName = "Email"
    /\ last.body.feedbackText = ""
    /\ last.body.invalidated = {}
    /\ Len(db.feedback) = 1
    /\ Len(db.channels) = 0


Range(seq) == {seq[i] : i \in DOMAIN seq}

\* C23: rendering PriorityList has no effect on what PrioritizationMatrix
\* plots: whichever of the two renders first, the matrix plots the first
\* six items of the API response (compared here as a set of items, whatever
\* the order of the circles).
C23_MatrixPlotsFirstSixOfResponse ==
    (last.route = "Prioritization" /\ last.body.matrixRendered)
       => {c.item : c \in Range(last.body.plotted)} = Range(matrixItems(last.body.loaded))


\* the rank badge of the item at (zero-based) index of sortedItems.map:
\* {index + 1}
rankBadge(index) == index + 1

\* C24: in the rendered priority list, the number in each item's rank badge
\* equals that item's rank, also when ranks have gaps or duplicates.
C24_BadgeShowsRank ==
    (last.route = "Prioritization" /\ last.body.listRendered) =>
        \A i \in DOMAIN last.body.sortedItems :
            rankBadge(i - 1) = last.body.sortedItems[i].rank


(***************************************************************************)
(* FeedbackHighlights.tsx: the dashboard card of recent feedback.          *)
(* last.body holds the array the query ["/api/feedback"] delivered (newest *)
(* first, as getRecentFeedback orders it) and the entries rendered.        *)
(***************************************************************************)
MaxFeedback == 4

FeedbackArrays ==
    UNION {{[i \in 1..n |-> [id |-> i, sentiment |-> sentiments[i],
                             timestamp |-> n + 1 - i]] :
               sentiments \in [1..n -> Sentiments]} : n \in 0..MaxFeedback}

InitHighlights ==
    /\ db = EmptyDb
    /\ clock = 0
    /\ nextId = 1
    /\ inflight = <<>>
    /\ nreq = 0
    /\ acked = {}
    /\ \E feedbackData \in FeedbackArrays :
          last = [NoResponse EXCEPT
                    !.route = "FeedbackHighlights",
                    !.body = [feedbackData |-> feedbackData, rendered |-> FALSE,
                              shown |-> <<>>]]

\* feedback.sentiment === "positive" ? <ThumbsUp green> : <ThumbsDown red>
sentimentIcon(feedback) ==
    IF feedback.sentiment = "positive" THEN "ThumbsUp text-green-600"
                                       ELSE "ThumbsDown text-red-600"

\* feedbackData?.slice(0, 3).map(...)
RenderFeedbackHighlights ==
    LET feedbackData == last.body.feedbackData
        slice == SubSeq(feedbackData, 1, Min(3, Len(feedbackData)))
    IN /\ last.route = "FeedbackHighlights"
       /\ ~last.body.rendered
       /\ last' = [last EXCEPT
                     !.body.rendered = TRUE,
                     !.body.shown = [i \in DOMAIN slice |->
                                        [feedback |-> slice[i],
                                         icon |-> sentimentIcon(slice[i])]]]
       /\ UNCHANGED <<db, clock, nextId, inflight, nreq, acked>>

NextHighlights == RenderFeedbackHighlights

SpecHighlights == InitHighlights /\ [][NextHighlights]_vars

\* C25: the highlights show the at most three newest entries; the green
\* thumbs-up is shown exactly for sentiment positive, the red thumbs-down
\* exactly for sentiment negative, so a neutral entry has neither.
C25_IconsMatchSentiment ==
    (last.route = "FeedbackHighlights" /\ last.body.rendered) =>
        LET feedbackData == last.body.feedbackData
            shown == last.body.shown
        IN /\ Len(shown) = Min(3, Len(feedbackData))
           /\ \A i \in DOMAIN shown :
                 /\ shown[i].feedback = feedbackData[i]
                 /\ \A j \in DOMAIN feedbackData :
                       j > Len(shown) =>
                          feedbackData[j].timestamp < shown[i].feedback.timestamp
                 /\ shown[i].icon = "ThumbsUp text-green-600"
                       <=> shown[i].feedback.sentiment = "positive"
                 /\ shown[i].icon = "ThumbsDown text-red-600"
                       <=> shown[i].feedback.sentiment = "negative"


(***************************************************************************)
(* SentimentTrendChart.tsx and RegionalSentimentChart.tsx: one mounted     *)
(* chart component.  last.body holds the component's state (the selected   *)
(* period, what its queries returned), the canvas, the chartInstance ref,  *)
(* every Chart instance created so far, and whether the last run of the    *)
(* effect returned a cleanup function.  A render is committed in steps:    *)
(* the state change with the new DOM, the cleanup of the previous effect,  *)
(* the effect up to the destroy of the previous instance, and new Chart.   *)
(***************************************************************************)
MaxChartEvents == 4
MaxMonths == 4

Trend == "SentimentTrendChart"
Regional == "RegionalSentimentChart"
Periods == {"30d", "90d", "all"}

\* what useQuery holds of a query: data is the array (<<>> while undefined)
Query(status, fetching, data) == [status |-> status, fetching |-> fetching, data |-> data]

SeedMonths == <<"Jan", "Feb", "Mar", "Apr", "May">>
SeedMonthScores == <<<<"7", ".", "2">>, <<"7", ".", "4">>, <<"7", ".", "1">>,
                     <<"7", ".", "6">>, <<"7", ".", "8">>>>

MonthlyData(n) == [i \in 1..n |-> [month |-> SeedMonths[i], score |-> SeedMonthScores[i]]]

DayNames == <<"Day 1", "Day 2", "Day 3">>

DailyData(n) == [i \in 1..n |-> [date |-> DayNames[i], score |-> SeedMonthScores[i]]]

\* the arrays a query can deliver
QueryData(name) ==
    CASE name = "daily" -> {DailyData(2)}
      [] name = "monthly" -> {MonthlyData(n) : n \in {0, 2, MaxMonths}}
      [] name = "regional" -> {RegionalStore(SubSeq(SeedScores, 1, n), 1) : n \in 0..2}

ChartState(component, daily, monthly, regional) ==
    [component |-> component, mounted |-> TRUE, pc |-> "effect",
     selectedPeriod |-> "30d",
     daily |-> daily, monthly |-> monthly, regional |-> regional,
     canvas |-> FALSE, chartInstance |-> 0, charts |-> <<>>, cleanup |-> FALSE]

\* enabled: selectedPeriod === "30d", enabled: selectedPeriod !== "30d"
enabled(state, name) ==
    CASE name = "daily" -> state.component = Trend /\ state.selectedPeriod = "30d"
      [] name = "monthly" -> state.component = Trend /\ state.selectedPeriod # "30d"
      [] name = "regional" -> state.component = Regional

isLoadingOf(query) == query.status = "pending" /\ query.fetching

\* const isLoading = selectedPeriod === "30d" ? isDailyLoading : isMonthlyLoading
isLoading(state) ==
    IF state.component = Regional THEN isLoadingOf(state.regional)
    ELSE IF state.selectedPeriod = "30d" THEN isLoadingOf(state.daily)
                                         ELSE isLoadingOf(state.monthly)

getFilteredMonthlyDataFirstThree(state) ==
    LET monthlyData == state.monthly.data
    IN IF monthlyData = <<>> THEN <<>>
       ELSE IF state.selectedPeriod = "all" THEN monthlyData
       ELSE SubSeq(monthlyData, 1, Min(3, Len(monthlyData)))

\* monthlyData.slice(-3) for 90d, monthlyData for all
getFilteredMonthlyData(state) ==
    LET monthlyData == state.monthly.data
    IN IF monthlyData = <<>> THEN <<>>
       ELSE IF state.selectedPeriod = "all" THEN monthlyData
       ELSE SubSeq(monthlyData, IF Len(monthlyData) > 3 THEN Len(monthlyData) - 2 ELSE 1,
                   Len(monthlyData))

\* labels and data of the chart; the scores through parseFloat, in tenths
getChartData(state) ==
    IF state.component = Regional
    THEN [labels |-> [i \in DOMAIN state.regional.data |-> state.regional.data[i].region],
          data |-> [i \in DOMAIN state.regional.data |->
                       parseFloat(state.regional.data[i].sentimentScore)]]
    ELSE IF state.selectedPeriod = "30d"
    THEN [labels |-> [i \in DOMAIN state.daily.data |-> state.daily.data[i].date],
          data |-> [i \in DOMAIN state.daily.data |-> parseFloat(state.daily.data[i].score)]]
    ELSE LET filteredData == getFilteredMonthlyData(state)
         IN [labels |-> [i \in DOMAIN filteredData |-> filteredData[i].month],
             data |-> [i \in DOMAIN filteredData |-> parseFloat(filteredData[i].score)]]

\* the component mounts: nothing cached and the enabled query starts to
\* fetch, or the enabled query's data is in the cache already
InitCharts ==
    /\ db = EmptyDb
    /\ clock = 0
    /\ nextId = 1
    /\ inflight = <<>>
    /\ nreq = 0
    /\ acked = {}
    /\ \E component \in {Trend, Regional} :
       \E name \in {"daily", "regional"} :
       \E first \in {Query("pending", TRUE, <<>>)}
                       \cup {Query("success", FALSE, data) : data \in QueryData(name)} :
          LET idle == Query("pending", FALSE, <<>>)
              state == IF component = Trend THEN ChartState(Trend, first, idle, idle)
                                            ELSE ChartState(Regional, idle, idle, first)
          IN /\ enabled(state, name)
             /\ last = [NoResponse EXCEPT !.route = "Chart",
                                          !.body = [state EXCEPT
                                                      !.canvas = ~isLoading(state)]]

\* a render is committed: the canvas is in the DOM unless isLoading; the
\* effect is run again when one of its dependencies changed
Commit(state, depsChanged) ==
    /\ last' = [last EXCEPT !.body = [state EXCEPT
                                        !.canvas = ~isLoading(state),
                                        !.pc = IF depsChanged THEN "cleanup" ELSE "idle"]]
    /\ nreq' = nreq + 1
    /\ UNCHANGED <<db, clock, nextId, inflight, acked>>

\* [chartData, isLoading, selectedPeriod]: chartData is a new object in
\* every render; [regionalData]
DepsChanged(before, after) ==
    before.component = Trend \/ before.regional.data # after.regional.data

\* onClick={() => setSelectedPeriod(p)}; a query that becomes enabled and
\* has no data starts to fetch
setSelectedPeriod(p) ==
    LET state == last.body
        name == IF p = "30d" THEN "daily" ELSE "monthly"
        set == [state EXCEPT !.selectedPeriod = p]
        after == IF set[name].status # "success" /\ ~set[name].fetching
                 THEN [set EXCEPT ![name] = Query("pending", TRUE, <<>>)]
                 ELSE set
    IN /\ last.route = "Chart"
       /\ state.component = Trend
       /\ state.mounted /\ state.pc = "idle"
       /\ p # state.selectedPeriod
       /\ Commit(after, TRUE)

\* a fetch ends with an array
QuerySucceeds(name) ==
    LET state == last.body
    IN /\ last.route = "Chart"
       /\ state.mounted /\ state.pc = "idle"
       /\ state[name].fetching
       /\ \E data \in QueryData(name) :
             LET after == [state EXCEPT ![name] = Query("success", FALSE, data)]
             IN Commit(after, DepsChanged(state, after))

\* a fetch ends with an error (retry: false); the data of a query that had
\* some stays
QueryFails(name) ==
    LET state == last.body
        after == [state EXCEPT
                    ![name] = IF state[name].status = "success"
                              THEN Query("success", FALSE, state[name].data)
                              ELSE Query("error", FALSE, <<>>)]
    IN /\ last.route = "Chart"
       /\ state.mounted /\ state.pc = "idle"
       /\ state[name].fetching
       /\ Commit(after, DepsChanged(state, after))

\* an enabled query is fetched again (invalidated, or in error and the
\* window gets the focus)
Refetch(name) ==
    LET state == last.body
        after == [state EXCEPT
                    ![name] = IF state[name].status = "success"
                              THEN Query("success", TRUE, state[name].data)
                              ELSE Query("pending", TRUE, <<>>)]
    IN /\ last.route = "Chart"
       /\ state.mounted /\ state.pc = "idle"
       /\ enabled(state, name)
       /\ ~state[name].fetching
       /\ Commit(after, DepsChanged(state, after))

\* the component is unmounted: the cleanup of its effect is run
Unmount ==
    /\ last.route = "Chart"
    /\ last.body.mounted /\ last.body.pc = "idle"
    /\ last' = [last EXCEPT !.body.mounted = FALSE, !.body.canvas = FALSE,
                            !.body.pc = "cleanup"]
    /\ UNCHANGED <<db, clock, nextId, inflight, nreq, acked>>

\* chart.destroy()
destroy(charts, chart) ==
    IF chart = 0 THEN charts ELSE [charts EXCEPT ![chart].destroyed = TRUE]

effectCleanupNothing(state) == state.charts

\* return () => { if (chartInstance.current) chartInstance.current.destroy(); }
effectCleanup(state) == destroy(state.charts, state.chartInstance)

\* the cleanup function the previous run of the effect returned, if it
\* returned one
RunCleanup ==
    LET state == last.body
    IN /\ last.route = "Chart"
       /\ state.pc = "cleanup"
       /\ last' = [last EXCEPT
                     !.body.charts = IF state.cleanup THEN effectCleanup(state)
                                                      ELSE state.charts,
                     !.body.cleanup = FALSE,
                     !.body.pc = IF state.mounted THEN "effect" ELSE "unmounted"]
       /\ UNCHANGED <<db, clock, nextId, inflight, nreq, acked>>

\* if (!chartRef.current || !chartData.labels.length || isLoading) return;
\* if (!chartRef.current || !regionalData || regionalData.length === 0) return;
effectReturnsEarly(state) ==
    \/ ~state.canvas
    \/ getChartData(state).labels = <<>>
    \/ state.component = Trend /\ isLoading(state)

\* the effect up to new Chart: the early return, or the destroy of the
\* instance the ref holds
RunEffect ==
    LET state == last.body
    IN /\ last.route = "Chart"
       /\ state.pc = "effect"
       /\ IF effectReturnsEarly(state)
          THEN last' = [last EXCEPT !.body.pc = "idle"]
          ELSE last' = [last EXCEPT
                          !.body.charts = destroy(state.charts, state.chartInstance),
                          !.body.pc = "create"]
       /\ UNCHANGED <<db, clock, nextId, inflight, nreq, acked>>

\* chartInstance.current = new Chart(ctx, {...}); return the cleanup
NewChart ==
    LET state == last.body
        chartData == getChartData(state)
    IN /\ last.route = "Chart"
       /\ state.pc = "create"
       /\ last' = [last EXCEPT
                     !.body.charts = Append(state.charts,
                                            [destroyed |-> FALSE,
                                             labels |-> chartData.labels,
                                             data |-> chartData.data]),
                     !.body.chartInstance = Len(state.charts) + 1,
                     !.body.cleanup = TRUE,
                     !.body.pc = "idle"]
       /\ UNCHANGED <<db, clock, nextId, inflight, nreq, acked>>

NextCharts ==
    \/ \E p \in Periods : nreq < MaxChartEvents /\ setSelectedPeriod(p)
    \/ \E name \in {"daily", "monthly", "regional"} :
          nreq < MaxChartEvents /\ QuerySucceeds(name)
    \/ \E name \in {"daily", "monthly", "regional"} :
          nreq < MaxChartEvents /\ QueryFails(name)
    \/ \E name \in {"daily", "monthly", "regional"} :
          nreq < MaxChartEvents /\ Refetch(name)
    \/ Unmount
    \/ RunCleanup
    \/ RunEffect
    \/ NewChart

SpecCharts == InitCharts /\ [][NextCharts]_vars


LiveCharts(state) == {i \in DOMAIN state.charts : ~state.charts[i].destroyed}

\* the points of the series the selected period asks for
PeriodSeries(state) ==
    LET n == Len(state.monthly.data)
        k == Min(3, n)
    IN CASE state.selectedPeriod = "30d" ->
              [i \in DOMAIN state.daily.data |->
                  [label |-> state.daily.data[i].date,
                   value |-> parseFloat(state.daily.data[i].score)]]
         [] state.selectedPeriod = "90d" ->
              [i \in 1..k |->
                  [label |-> state.monthly.data[n - k + i].month,
                   value |-> parseFloat(state.monthly.data[n - k + i].score)]]
         [] state.selectedPeriod = "all" ->
              [i \in 1..n |->
                  [label |-> state.monthly.data[i].month,
                   value |-> parseFloat(state.monthly.data[i].score)]]

Plotted(chart) ==
    [i \in DOMAIN chart.labels |-> [label |-> chart.labels[i], value |-> chart.data[i]]]

\* C26: the trend chart starts with period 30d; exactly one of its two
\* queries is enabled, the daily one exactly when the period is 30d; and
\* once a render is committed the chart plots the series of the selected
\* period: the daily points for 30d, the last min(3, n) monthly points in
\* stored order for 90d, all n monthly points for all (no chart when that
\* series is empty).
C26_SeriesFollowsPeriod ==
    (last.route = "Chart" /\ last.body.component = Trend) =>
        LET state == last.body
        IN /\ nreq = 0 => state.selectedPeriod = "30d"
           /\ enabled(state, "daily") # enabled(state, "monthly")
           /\ enabled(state, "daily") <=> state.selectedPeriod = "30d"
           /\ (state.mounted /\ state.pc = "idle") =>
                 IF PeriodSeries(state) = <<>>
                 THEN LiveCharts(state) = {}
                 ELSE /\ LiveCharts(state) = {state.chartInstance}
                      /\ Plotted(state.charts[state.chartInstance]) = PeriodSeries(state)

C26_Witness ==
    /\ last.route = "Chart"
    /\ last.body.component = Trend
    /\ last.body.mounted /\ last.body.pc = "idle"
    /\ last.body.selectedPeriod = "90d"
    /\ Len(last.body.monthly.data) = MaxMonths
    /\ Len(last.body.charts) = 2
    /\ LiveCharts(last.body) = {2}
    /\ last.body.charts[2].labels = <<"Feb", "Mar", "Apr">>
    /\ last.body.charts[1].labels = <<"Day 1", "Day 2">>

\* C28: for each chart component, at most one Chart instance that is not
\* destroyed exists at any time; when new Chart is called every earlier
\* instance has been destroyed; after unmount no instance is left alive.
C28_OneLiveChart ==
    last.route = "Chart" =>
        LET state == last.body
        IN /\ Cardinality(LiveCharts(state)) <= 1
           /\ LiveCharts(state) \subseteq {state.chartInstance}
           /\ state.pc = "create" => LiveCharts(state) = {}
           /\ state.pc = "unmounted" => LiveCharts(state) = {}

C28_Witness ==
    /\ last.route = "Chart"
    /\ last.body.component = Regional
    /\ last.body.pc = "unmounted"
    /\ Len(last.body.charts) = 2
    /\ last.body.charts[1].labels # last.body.charts[2].labels
    /\ LiveCharts(last.body) = {}


\* C27: GET /api/sentiment-trends answers with an error only when the
\* repository failed; otherwise it answers 200, with the daily points when
\* period=daily and with the monthly rows without period.
C27_TrendsErrorOnlyOnRepositoryFailure ==
    last.route = "GET /api/sentiment-trends" =>
        /\ last.status \in {200, 500}
        /\ last.status = 500 => last.cause = "storage"
        /\ last.status = 200 => last.json = last.snapshot


(***************************************************************************)
(* seed.ts: the seed script, one step per awaited statement.  last.body    *)
(* holds the script's position, the number of runs started, the database   *)
(* as the current run found it and as the last completed run left it.      *)
(* Long texts of the seed rows are cut to their first words.               *)
(***************************************************************************)
MaxSeedRuns == 2

\* await db.delete(...), in this order
SeedDeletes == <<"channels", "usageMetrics", "impactMetrics", "aiInsights",
                 "priorityItems", "sentimentTrends", "feedback", "regionalSentiment">>

\* await db.insert(...).values([...]), in this order
SeedInserts == <<"regionalSentiment", "feedback", "sentimentTrends", "priorityItems",
                 "aiInsights", "impactMetrics", "usageMetrics", "channels">>

SeedRegions == <<"Northeast", "Southeast", "Midwest", "Southwest", "West">>

SeedTrendMonths == <<"Jan", "Feb", "Mar", "Apr", "May", "Jun", "Jul", "Aug", "Sep", "Oct">>
SeedTrendScores == <<<<"7", ".", "2">>, <<"7", ".", "4">>, <<"7", ".", "1">>,
                     <<"7", ".", "6">>, <<"7", ".", "8">>, <<"7", ".", "9">>,
                     <<"8", ".", "0">>, <<"7", ".", "7">>, <<"8", ".", "2">>,
                     <<"8", ".", "3">>>>

SeedWeeks == <<"Week 1", "Week 2", "Week 3", "Week 4", "Week 5", "Week 6", "Week 7",
              "Week 8">>
SeedUsers == <<1200, 1450, 1680, 1820, 2100, 2350, 2580, 2820>>
SeedSatisfaction == <<<<"7", ".", "2">>, <<"7", ".", "4">>, <<"7", ".", "6">>,
                      <<"7", ".", "8">>, <<"8", ".", "0">>, <<"8", ".", "2">>,
                      <<"8", ".", "3">>, <<"8", ".", "5">>>>

SeedFeedback(text, sentiment, source, region) ==
    [text |-> text, sentiment |-> sentiment, source |-> source, region |-> region]

SeedPriorityItem(title, impact, effort, category, rank) ==
    [title |-> title, impact |-> impact, effort |-> effort, category |-> category,
     rank |-> rank]

SeedImpactMetric(metricName, beforeValue, afterValue, improvement, unit) ==
    [metricName |-> metricName, beforeValue |-> beforeValue, afterValue |-> afterValue,
     improvement |-> improvement, unit |-> unit]

SeedChannel(name, messageCount) ==
    [name |-> name, status |-> "active", messageCount |-> messageCount]

\* the values of each insert
SeedValues ==
    [regionalSentiment |->
        [i \in 1..5 |-> [region |-> SeedRegions[i], sentimentScore |-> SeedScores[i]]],
     feedback |->
        <<SeedFeedback("Amazing customer service!", "positive", "Twitter", "West"),
          SeedFeedback("The new update is confusing.", "negative", "Facebook", "Southeast"),
          SeedFeedback("Love the latest features!", "positive", "Instagram", "Northeast"),
          SeedFeedback("Response time has improved significantly.", "positive", "Email",
                       "Midwest"),
          SeedFeedback("The mobile app needs work.", "negative", "Live Chat", "Southwest")>>,
     sentimentTrends |->
        [i \in 1..10 |-> [month |-> SeedTrendMonths[i], score |-> SeedTrendScores[i],
                          year |-> 2024]],
     priorityItems |->
        <<SeedPriorityItem("Mobile App UX Improvements", 9, 3, "Product", 1),
          SeedPriorityItem("Customer Support Response Time", 9, 6, "Support", 2),
          SeedPriorityItem("Bug Fixes - Payment Flow", 9, 4, "Engineering", 3),
          SeedPriorityItem("Premium Feature Launch", 7, 8, "Product", 4),
          SeedPriorityItem("Documentation Updates", 4, 2, "Content", 5)>>,
     aiInsights |->
        <<[title |-> "Improve Mobile App Navigation", priority |-> "high"],
          [title |-> "Expand Customer Support Hours", priority |-> "medium"],
          [title |-> "Launch Feature Tutorial Series", priority |-> "medium"]>>,
     impactMetrics |->
        <<SeedImpactMetric("Time to Resolution", "4.2", "1.5", 64, "hours"),
          SeedImpactMetric("Customer Satisfaction", "7.2", "8.5", 18, "/10"),
          SeedImpactMetric("Retention Rate", "78%", "91%", 17, "")>>,
     usageMetrics |->
        [i \in 1..8 |-> [week |-> SeedWeeks[i], dailyActiveUsers |-> SeedUsers[i],
                         satisfactionScore |-> SeedSatisfaction[i]]],
     channels |->
        <<SeedChannel("Twitter", <<"1", "2", ".", "5", "K">>),
          SeedChannel("Facebook", <<"8", ".", "3", "K">>),
          SeedChannel("Instagram", <<"1", "5", ".", "2", "K">>),
          SeedChannel("Email", <<"4", ".", "1", "K">>),
          SeedChannel("Live Chat", <<"2", ".", "8", "K">>)>>]

\* the columns the database fills in: the id, and now() where the table has
\* a timestamp column
Defaults(table, id) ==
    CASE table = "regionalSentiment" -> [id |-> id, updatedAt |-> clock]
      [] table = "feedback" -> [id |-> id, timestamp |-> clock]
      [] table = "aiInsights" -> [id |-> id, createdAt |-> clock]
      [] OTHER -> [id |-> id]

\* a database the script can find: each table empty or holding rows created
\* earlier, through the API or by hand
FoundDbs ==
    {[t \in Tables |-> IF t \in filled THEN SeededDb[t] ELSE <<>>] :
        filled \in SUBSET Tables}

SeedState(found) ==
    [pc |-> 0, runs |-> 0, before |-> found, completed |-> 0, previous |-> found]

InitSeed ==
    /\ clock = 2
    /\ nextId = 6
    /\ inflight = <<>>
    /\ nreq = 0
    /\ acked = {}
    /\ \E found \in FoundDbs :
          /\ db = found
          /\ last = [NoResponse EXCEPT !.route = "seed", !.body = SeedState(found)]

\* seed() is called; time has passed since the last run
StartSeed ==
    /\ last.route = "seed"
    /\ last.body.pc \in {0, 17, 18}
    /\ last.body.runs < MaxSeedRuns
    /\ clock' = clock + 1
    /\ last' = [last EXCEPT !.body.pc = 1, !.body.runs = @ + 1, !.body.before = db,
                            !.body.previous = IF last.body.pc = 17 THEN db ELSE @]
    /\ UNCHANGED <<db, nextId, inflight, nreq, acked>>

deleteNothing(rows) == rows

\* db.delete(table), without a where clause
delete(rows) == <<>>

DeleteStatement ==
    LET table == SeedDeletes[last.body.pc]
    IN /\ last.route = "seed"
       /\ last.body.pc \in 1..8
       /\ db' = [db EXCEPT ![table] = delete(@)]
       /\ last' = [last EXCEPT !.body.pc = @ + 1]
       /\ UNCHANGED <<clock, nextId, inflight, nreq, acked>>

\* db.insert(table).values(values)
RECURSIVE insertAll(_, _, _, _)
insertAll(rows, table, values, id) ==
    IF values = <<>> THEN rows
    ELSE insertAll(InsertValues(rows, Head(values) @@ Defaults(table, id)),
                   table, Tail(values), id + 1)

InsertStatement ==
    LET table == SeedInserts[last.body.pc - 8]
        values == SeedValues[table]
    IN /\ last.route = "seed"
       /\ last.body.pc \in 9..16
       /\ db' = [db EXCEPT ![table] = insertAll(@, table, values, nextId)]
       /\ nextId' = nextId + Len(values)
       /\ last' = [last EXCEPT !.body.pc = @ + 1,
                               !.body.completed = IF last.body.pc = 16 THEN @ + 1 ELSE @]
       /\ UNCHANGED <<clock, inflight, nreq, acked>>

\* a statement throws: seed() rejects, the catch logs and exits
StatementThrows ==
    /\ last.route = "seed"
    /\ last.body.pc \in 1..16
    /\ last' = [last EXCEPT !.body.pc = 18]
    /\ UNCHANGED <<db, clock, nextId, inflight, nreq, acked>>

NextSeed ==
    \/ StartSeed
    \/ DeleteStatement
    \/ InsertStatement
    \/ StatementThrows

SpecSeed == InitSeed /\ [][NextSeed]_vars

\* a row without the columns the database fills in
Stripped(row) ==
    [f \in DOMAIN row \ {"id", "updatedAt", "timestamp", "createdAt"} |-> row[f]]

StrippedRows(rows) == [i \in DOMAIN rows |-> Stripped(rows[i])]

\* C29: when a run of the seed script has completed, whatever the database
\* held before and however many runs went before, each collection holds
\* exactly the seed rows (5, 5, 10, 5, 3, 3, 8 and 5 of them), no record that
\* was there before the run is left, and a run after a completed run leaves
\* the same rows up to identifiers and timestamps.
C29_SeedLeavesExactlySeedRows ==
    (last.route = "seed" /\ last.body.pc = 17) =>
        /\ \A t \in Tables : StrippedRows(db[t]) = SeedValues[t]
        /\ <<Len(db.regionalSentiment), Len(db.feedback), Len(db.sentimentTrends),
             Len(db.priorityItems), Len(db.aiInsights), Len(db.impactMetrics),
             Len(db.usageMetrics), Len(db.channels)>> = <<5, 5, 10, 5, 3, 3, 8, 5>>
        /\ \A t \in Tables : Range(db[t]) \cap Range(last.body.before[t]) = {}
        /\ \A t \in Tables :
              {r.id : r \in Range(db[t])} \cap {r.id : r \in Range(last.body.before[t])} = {}
        /\ last.body.completed >= 2 =>
              \A t \in Tables : StrippedRows(db[t]) = StrippedRows(last.body.previous[t])

C29_Witness ==
    /\ last.route = "seed"
    /\ last.body.pc = 17
    /\ last.body.completed = 2
    /\ Len(last.body.before.channels) = 5
    /\ db.channels # last.body.before.channels
    /\ Len(db.sentimentTrends) = 10


(***************************************************************************)
(* AIInsights.tsx: the insight cards and their details dialogs.            *)
(* last.body holds the array the query ["/api/ai-insights"] delivered and  *)
(* what is rendered of each insight; a priority is a sequence of           *)
(* characters, as POST /api/ai-insights stores any string.                 *)
(***************************************************************************)
MaxInsights == 2

UpperCase == <<"A", "B", "C", "D", "E", "F", "G", "H", "I", "J", "K", "L", "M", "N", "O", "P", "Q", "R", "S", "T", "U", "V", "W", "X", "Y", "Z">>
LowerCase == <<"a", "b", "c", "d", "e", "f", "g", "h", "i", "j", "k", "l", "m", "n", "o", "p", "q", "r", "s", "t", "u", "v", "w", "x", "y", "z">>

\* String.prototype.toLowerCase
toLowerCase(s) ==
    [i \in DOMAIN s |->
        IF \E k \in DOMAIN UpperCase : UpperCase[k] = s[i]
        THEN LowerCase[CHOOSE k \in DOMAIN UpperCase : UpperCase[k] = s[i]]
        ELSE s[i]]

StoredPriorities ==
    {<<"h", "i", "g", "h">>,
     <<"H", "i", "g", "h">>,
     <<"H", "I", "G", "H">>,
     <<"m", "e", "d", "i", "u", "m">>,
     <<"M", "e", "d", "i", "u", "m">>,
     <<"l", "o", "w">>,
     <<"L", "o", "w">>,
     <<"u", "r", "g", "e", "n", "t">>,
     <<>>}

InsightArrays ==
    UNION {{[i \in 1..n |-> [id |-> i, priority |-> priorities[i]]] :
               priorities \in [1..n -> StoredPriorities]} : n \in 0..MaxInsights}

InitInsights ==
    /\ db = EmptyDb
    /\ clock = 0
    /\ nextId = 1
    /\ inflight = <<>>
    /\ nreq = 0
    /\ acked = {}
    /\ \E insightsData \in InsightArrays :
          last = [NoResponse EXCEPT
                    !.route = "AIInsights",
                    !.body = [insightsData |-> insightsData, rendered |-> FALSE,
                              cards |-> <<>>]]

\* switch (priority.toLowerCase())
getPriorityColor(priority) ==
    CASE toLowerCase(priority) = <<"h", "i", "g", "h">> ->
            "bg-red-100 text-red-700 border-red-200"
      [] toLowerCase(priority) = <<"m", "e", "d", "i", "u", "m">> ->
            "bg-yellow-100 text-yellow-700 border-yellow-200"
      [] toLowerCase(priority) = <<"l", "o", "w">> ->
            "bg-green-100 text-green-700 border-green-200"
      [] OTHER -> "bg-gray-100 text-gray-700 border-gray-200"

\* insight.priority === "high" ? ... : insight.priority === "medium" ? ... : ...
recommendedTimeline(priority) ==
    IF priority = <<"h", "i", "g", "h">>
    THEN "Immediate action recommended within 1-2 weeks"
    ELSE IF priority = <<"m", "e", "d", "i", "u", "m">>
    THEN "Implement within 1-2 months"
    ELSE "Schedule for next quarter"

\* insightsData?.map(...): the badge of each card and the timeline of its
\* details dialog
RenderAIInsights ==
    LET insightsData == last.body.insightsData
    IN /\ last.route = "AIInsights"
       /\ ~last.body.rendered
       /\ last' = [last EXCEPT
                     !.body.rendered = TRUE,
                     !.body.cards =
                        [i \in DOMAIN insightsData |->
                            [insight |-> insightsData[i],
                             badge |-> getPriorityColor(insightsData[i].priority),
                             timeline |-> recommendedTimeline(insightsData[i].priority)]]]
       /\ UNCHANGED <<db, clock, nextId, inflight, nreq, acked>>

NextInsights == RenderAIInsights

SpecInsights == InitInsights /\ [][NextInsights]_vars

\* C30: for every rendered insight the badge colour and the timeline of the
\* details dialog agree on the priority level: red (high) goes with the
\* 1-2 weeks timeline, yellow (medium) with the 1-2 months timeline, and the
\* next-quarter timeline is shown only with green (low) or grey (unknown),
\* whatever the letter case of the stored priority.
C30_BadgeAndTimelineAgree ==
    (last.route = "AIInsights" /\ last.body.rendered) =>
        \A i \in DOMAIN last.body.cards :
            LET card == last.body.cards[i]
            IN /\ card.badge = "bg-red-100 text-red-700 border-red-200"
                    => card.timeline = "Immediate action recommended within 1-2 weeks"
               /\ card.badge = "bg-yellow-100 text-yellow-700 border-yellow-200"
                    => card.timeline = "Implement within 1-2 months"
               /\ card.timeline = "Schedule for next quarter"
                    => card.badge \in {"bg-green-100 text-green-700 border-green-200",
                                       "bg-gray-100 text-gray-700 border-gray-200"}

=============================================================================
